---- MODULE Spec2Model ----
(***************************************************************************)
(* The price-comparison pipeline of build_outputs.py (main and its         *)
(* helpers) as a state machine.  One run of main is one behaviour: the     *)
(* input (./input and the current directory with their CSV files) is drawn *)
(* in Init, and every action is one block of main in source order.         *)
(* Floats are exact rationals [n, d]; d = 0 encodes the                    *)
(* IEEE specials (0/0 = NaN, which is pandas' null, and n/0 = +-Inf).      *)
(* Text is a sequence of one-character strings; the Hangul syllables of    *)
(* the patterns are written "mae" (sheets), "gae" (pieces), "paek" (pack). *)
(* The paged product search of naver_api/api_client.py is a second state   *)
(* machine over the client variables, with its own specification.          *)
(***************************************************************************)
EXTENDS Integers, Sequences, FiniteSets, TLC

\* Largest number of rows in the input CSV.
MaxRows == 4

(***************************************************************************)
(* Floating point values                                                   *)
(***************************************************************************)
Sign(i) == IF i > 0 THEN 1 ELSE IF i < 0 THEN -1 ELSE 0

Abs(i) == IF i < 0 THEN -i ELSE i

RECURSIVE Gcd(_, _)
Gcd(a, b) == IF b = 0 THEN a ELSE Gcd(b, a % b)

Rat(n, d) ==
    IF d = 0 THEN [n |-> Sign(n), d |-> 0]
    ELSE LET g == Gcd(Abs(n), Abs(d))
         IN  [n |-> (Sign(d) * n) \div g, d |-> Abs(d) \div g]

Num(i) == [n |-> i, d |-> 1]

NaN == [n |-> 0, d |-> 0]

\* pd.isna / Series.notna on a float
isna(x) == x.d = 0 /\ x.n = 0

notna(x) == ~isna(x)

IsInf(x) == x.d = 0 /\ x.n # 0

Neg(a) == [n |-> -a.n, d |-> a.d]

Add(a, b) ==
    IF a.d > 0 /\ b.d > 0 THEN Rat(a.n * b.d + b.n * a.d, a.d * b.d)
    ELSE IF isna(a) \/ isna(b) THEN NaN
    ELSE IF a.d = 0 /\ b.d = 0 THEN (IF a.n = b.n THEN a ELSE NaN)
    ELSE IF a.d = 0 THEN a ELSE b

Sub(a, b) == Add(a, Neg(b))

Mul(a, b) == Rat(a.n * b.n, a.d * b.d)

\* IEEE division as numpy/pandas perform it: x/0 is +-Inf, 0/0 is NaN, and
\* NaN propagates; nothing is raised.
Div(a, b) ==
    LET s == IF b.n < 0 THEN -1 ELSE 1
    IN  Rat(a.n * b.d * s, a.d * b.n * s)

Lt(a, b) ==
    /\ notna(a)
    /\ notna(b)
    /\ CASE a.d > 0 /\ b.d > 0 -> a.n * b.d < b.n * a.d
         [] a.d = 0 /\ b.d = 0 -> a.n < b.n
         [] a.d = 0 /\ b.d > 0 -> a.n < 0
         [] OTHER -> b.n > 0

Le(a, b) == notna(a) /\ notna(b) /\ (a = b \/ Lt(a, b))

Gt(a, b) == Lt(b, a)

RECURSIVE SumSeqKeepNaN(_)
\* A sum that does not skip nulls (skipna=False): one NaN makes it NaN.
SumSeqKeepNaN(s) == IF s = <<>> THEN Num(0) ELSE Add(Head(s), SumSeqKeepNaN(Tail(s)))

RECURSIVE SumSeq(_)
\* Series.sum(): NaN entries are skipped, the empty sum is 0.
SumSeq(s) ==
    IF s = <<>> THEN Num(0)
    ELSE IF isna(Head(s)) THEN SumSeq(Tail(s))
    ELSE Add(Head(s), SumSeq(Tail(s)))

RECURSIVE Insert(_, _)
Insert(x, s) ==
    IF s = <<>> THEN <<x>>
    ELSE IF Le(x, Head(s)) THEN <<x>> \o s
    ELSE <<Head(s)>> \o Insert(x, Tail(s))

RECURSIVE SortNum(_)
SortNum(s) == IF s = <<>> THEN <<>> ELSE Insert(Head(s), SortNum(Tail(s)))

dropna(s) == SelectSeq(s, notna)

\* Series.quantile(k/20) with pandas' default linear interpolation: nulls are
\* skipped, an empty series gives NaN, a single value gives that value.
Quantile(s, k) ==
    LET v == SortNum(dropna(s))
        n == Len(v)
    IN  IF n = 0 THEN NaN
        ELSE LET pos == (n - 1) * k
                 lo  == pos \div 20
                 fr  == pos % 20
             IN  IF fr = 0 THEN v[lo + 1]
                 ELSE Add(v[lo + 1], Mul(Sub(v[lo + 2], v[lo + 1]), Rat(fr, 20)))

(***************************************************************************)
(* Text                                                                    *)
(***************************************************************************)
\* A missing (null) cell of the CSV.
NA == <<"<NA>">>

Digits == {"0", "1", "2", "3", "4", "5", "6", "7", "8", "9"}

DigitVal(c) ==
    CASE c = "0" -> 0 [] c = "1" -> 1 [] c = "2" -> 2 [] c = "3" -> 3
      [] c = "4" -> 4 [] c = "5" -> 5 [] c = "6" -> 6 [] c = "7" -> 7
      [] c = "8" -> 8 [] c = "9" -> 9

RECURSIVE DigitsVal(_)
DigitsVal(s) ==
    IF s = <<>> THEN 0
    ELSE 10 * DigitsVal(SubSeq(s, 1, Len(s) - 1)) + DigitVal(s[Len(s)])

\* pd.to_numeric(..., errors="coerce") on a cell: an optionally signed run
\* of digits is its value, anything else (and a null cell) is NaN.
ToNumeric(s) ==
    IF s = NA \/ s = <<>> THEN NaN
    ELSE LET neg  == s[1] = "-"
             body == IF neg THEN Tail(s) ELSE s
         IN  IF body # <<>> /\ \A i \in 1..Len(body) : body[i] \in Digits
             THEN Num((IF neg THEN -1 ELSE 1) * DigitsVal(body))
             ELSE NaN

\* str.replace(",", "")
RemoveCommas(s) == IF s = NA THEN NA ELSE SelectSeq(s, LAMBDA c : c # ",")

RECURSIVE LStrip(_)
LStrip(s) == IF s # <<>> /\ Head(s) = " " THEN LStrip(Tail(s)) ELSE s

RECURSIVE RStrip(_)
RStrip(s) ==
    IF s # <<>> /\ s[Len(s)] = " " THEN RStrip(SubSeq(s, 1, Len(s) - 1)) ELSE s

\* str.strip()
Strip(s) == RStrip(LStrip(s))

RECURSIVE RunEnd(_, _)
\* Index of the last digit of the digit run that contains position i.
RunEnd(text, i) ==
    IF i < Len(text) /\ text[i + 1] \in Digits THEN RunEnd(text, i + 1) ELSE i

RECURSIVE SkipSpaces(_, _)
\* First index >= i that does not hold a space (Len + 1 when there is none).
SkipSpaces(text, i) ==
    IF i <= Len(text) /\ text[i] = " " THEN SkipSpaces(text, i + 1) ELSE i

\* re.search(r"(\d+)\s*<sym>", text): the start positions of matches.  The
\* greedy \d+ cannot give a digit back (the next character would have to be
\* a space or sym), so a match from i takes the whole run from i.
NumBeforeStarts(text, sym) ==
    {i \in 1..Len(text) :
        /\ text[i] \in Digits
        /\ LET j == SkipSpaces(text, RunEnd(text, i) + 1)
           IN  j <= Len(text) /\ text[j] = sym}

Min(S) == CHOOSE x \in S : \A y \in S : x <= y

\* group(1) of the leftmost match of (\d+)\s*<sym>, -1 when nothing matches
NumBefore(text, sym) ==
    LET starts == NumBeforeStarts(text, sym)
    IN  IF starts = {} THEN -1
        ELSE LET i == Min(starts) IN DigitsVal(SubSeq(text, i, RunEnd(text, i)))

\* re.search(r"[xX]\s*(\d+)", text)
NumAfterXStarts(text) ==
    {i \in 1..Len(text) :
        /\ text[i] \in {"x", "X"}
        /\ LET j == SkipSpaces(text, i + 1)
           IN  j <= Len(text) /\ text[j] \in Digits}

NumAfterX(text) ==
    LET starts == NumAfterXStarts(text)
    IN  IF starts = {} THEN -1
        ELSE LET j == SkipSpaces(text, Min(starts) + 1)
             IN  DigitsVal(SubSeq(text, j, RunEnd(text, j)))

extract_sheets_per_unit(name) ==
    IF name = NA THEN NaN
    ELSE LET m == NumBefore(name, "mae") IN IF m >= 0 THEN Num(m) ELSE NaN

\* extract_units with the pack pattern tried before the piece pattern.
extract_units_pack_first(name) ==
    IF name = NA THEN 1
    ELSE LET g == NumBefore(name, "gae")
             p == NumBefore(name, "paek")
             x == NumAfterX(name)
         IN  IF p >= 0 THEN p ELSE IF g >= 0 THEN g ELSE IF x >= 0 THEN x ELSE 1

extract_units(name) ==
    IF name = NA THEN 1
    ELSE LET g == NumBefore(name, "gae")
             p == NumBefore(name, "paek")
             x == NumAfterX(name)
         IN  IF g >= 0 THEN g ELSE IF p >= 0 THEN p ELSE IF x >= 0 THEN x ELSE 1

(***************************************************************************)
(* Module constants                                                        *)
(***************************************************************************)
SEGMENT_BASE == "unit_price"

\* PRICE_BAND_QUANTILES in twentieths: 0.0, 0.2, 0.4, 0.6, 0.8, 1.0
PRICE_BAND_QUANTILES == <<0, 4, 8, 12, 16, 20>>

PRICE_BAND_LABELS == <<"P0-20", "P20-40", "P40-60", "P60-80", "P80-100">>

\* The plausibility range of total_sheets.
MinSheets == 10

MaxSheets == 1000

(***************************************************************************)
(* The input                                                               *)
(***************************************************************************)
AllColumns ==
    {"week_start_date", "category1", "category2", "category3", "brand",
     "product_name", "price", "page_rank"}

\* The header of the CSV: complete, or lacking a category column.
ColumnSets == {AllColumns, AllColumns \ {"category2"}}

RawRow(c1, c2, b, name, p, r) ==
    [week_start_date |-> <<"w", "1">>, category1 |-> c1, category2 |-> c2,
     brand |-> b, product_name |-> name, price |-> p, page_rank |-> r]

CalmF == <<"C", "a", "l", "m", " ", "F">>

Name30 == <<"a", " ", "3", "0", "mae">>

Name60 == <<"M", "b", " ", "3", "0", " ", "mae", " ", "2", "gae">>

Name5 == <<"pae", "deu", " ", "5", "mae">>

\* The records a CSV row is drawn from: two categories and the empty one,
\* a named and a missing brand, names with a plausible, an implausible and no
\* sheet count, prices with and without a thousands separator and an
\* unparsable one, ranks present, zero and missing.  The unit prices of the
\* rows with a valid sheet count are 2, 64 and 8.
RowDomain ==
    { RawRow(<<"A">>, <<"B", " ">>, CalmF, Name30, <<"6", "0">>, <<"1">>),
      RawRow(NA, <<" ", "B">>, NA, Name60, <<"3", ",", "8", "4", "0">>, <<"4">>),
      RawRow(<<"A">>, NA, CalmF, Name30, <<"2", "4", "0">>, <<"4">>),
      RawRow(<<" ">>, NA, NA, Name30, <<"6", "0">>, <<"1">>),
      RawRow(<<"A">>, <<"B">>, NA, Name5, <<"6", "0">>, <<"0">>),
      RawRow(<<"A">>, <<"B">>, CalmF, NA, <<"6", "x">>, NA) }

RECURSIVE SeqsUpTo(_, _)
\* The sequences over S of length 0..n.
SeqsUpTo(S, n) ==
    IF n = 0 THEN {<<>>}
    ELSE LET shorter == SeqsUpTo(S, n - 1)
         IN  shorter \cup {Append(s, x) : s \in {t \in shorter : Len(t) = n - 1}, x \in S}

\* The category cell of a raw row: a column the CSV lacks reads as empty
\* (df.get(col, pd.Series(""))), a null cell as empty (fillna("")).
CategoryCell(row, col, columns) ==
    IF col \in columns /\ row[col] # NA THEN row[col] ELSE <<>>

\* normalize_category without the strip() of lines 70-71.
normalize_category_unstripped(row, columns) ==
    LET category2 == CategoryCell(row, "category2", columns)
        category1 == CategoryCell(row, "category1", columns)
        group     == IF category2 = <<>> THEN category1 ELSE category2
    IN  IF group = <<>> THEN NA ELSE group

normalize_category(row, columns) ==
    LET category2 == Strip(CategoryCell(row, "category2", columns))
        category1 == Strip(CategoryCell(row, "category1", columns))
        group     == IF category2 = <<>> THEN category1 ELSE category2
    IN  IF group = <<>> THEN NA ELSE group

\* The file names a directory can hold, in the order sorted() gives them.
FileNames == <<<<"a", ".", "c", "s", "v">>, <<"b", ".", "c", "s", "v">>>>

File(name, rows) == [name |-> name, rows |-> rows]

NameRank(name) == CHOOSE i \in 1..Len(FileNames) : FileNames[i] = name

RECURSIVE sorted(_)
\* sorted(dir.glob("*.csv")): the CSV files of a directory by name
sorted(files) ==
    IF files = {} THEN <<>>
    ELSE LET first == CHOOSE f \in files :
                          \A g \in files : NameRank(f.name) <= NameRank(g.name)
         IN  <<first>> \o sorted(files \ {first})

\* The discovery that reads both places.
DiscoverBoth(in) ==
    sorted((IF in.input_exists THEN in.input_files ELSE {}) \cup in.cwd_files)

\* load_inputs, lines 37-40: the files of ./input when it exists and holds a
\* CSV, else the files of the current directory.
Discover(in) ==
    LET files == IF in.input_exists THEN sorted(in.input_files) ELSE <<>>
    IN  IF files # <<>> THEN files ELSE sorted(in.cwd_files)

RECURSIVE concat(_)
\* pd.concat(frames, ignore_index=True)
concat(frames) == IF frames = <<>> THEN <<>> ELSE Head(frames) \o concat(Tail(frames))

\* The raw rows of the files load_inputs reads, in the order it reads them.
LoadedRows(in) ==
    LET files == Discover(in)
    IN  concat([i \in 1..Len(files) |-> files[i].rows])

\* What a run depends on: the header of the CSVs, the two directories, and
\* mean_ulps, the rounding error (in units of the last place) of the float
\* mean of three or more equal values, which (x + x + x) / 3 need not give
\* back as x.
FileSystem(columns, input_exists, input_files, cwd_files) ==
    [columns |-> columns, input_exists |-> input_exists,
     input_files |-> input_files, cwd_files |-> cwd_files, mean_ulps |-> 0]

\* One CSV in ./input and nothing in the current directory: 1..MaxRows rows
\* under the complete header, and two rows fewer under a header that lacks
\* a column (such a run ends at the first block that indexes the column).
SingleFileInputs ==
    {FileSystem(AllColumns, TRUE, {File(FileNames[1], rows)}, {}) :
        rows \in SeqsUpTo(RowDomain, MaxRows) \ {<<>>}}
    \cup
    {FileSystem(c, TRUE, {File(FileNames[1], rows)}, {}) :
        c \in ColumnSets \ {AllColumns},
        rows \in SeqsUpTo(RowDomain, MaxRows - 2) \ {<<>>}}

\* The one-row CSVs the directories of DirectoryInputs hold.
SmallFiles ==
    {File(FileNames[i], <<r>>) :
        i \in 1..Len(FileNames),
        r \in {RawRow(<<"A">>, <<"B", " ">>, CalmF, Name30, <<"6", "0">>, <<"1">>),
               RawRow(<<"A">>, NA, CalmF, Name30, <<"2", "4", "0">>, <<"4">>)}}

\* What a directory can hold: at most one file of each name.
Directories ==
    {d \in SUBSET SmallFiles : \A f, g \in d : f.name = g.name => f = g}

\* ./input absent, empty or holding files, and the current directory empty
\* or holding files.
DirectoryInputs ==
    {FileSystem(AllColumns, e, IF e THEN d ELSE {}, w) :
        e \in BOOLEAN, d \in Directories, w \in Directories}

\* The records whose repetition makes a cohort of equal log unit prices.
RepeatedRows ==
    { RawRow(<<"A">>, <<"B", " ">>, CalmF, Name30, <<"6", "0">>, <<"1">>),
      RawRow(<<"A">>, NA, CalmF, Name30, <<"2", "4", "0">>, <<"4">>) }

\* One CSV of 3..MaxRows equal records, with a float mean that is off by one
\* unit of the last place in either direction.  Everywhere else the mean is
\* taken as exact.
RoundingInputs ==
    {[FileSystem(AllColumns, TRUE, {File(FileNames[1], [i \in 1..n |-> r])}, {})
         EXCEPT !.mean_ulps = e] :
        r \in RepeatedRows, n \in 3..MaxRows, e \in {-1, 1}}

\* The file systems of a run.  When load_inputs finds rows, at least one of
\* them has a category (a frame without any group is not modelled).
Inputs ==
    {in \in SingleFileInputs \cup DirectoryInputs \cup RoundingInputs :
        \/ Discover(in) = <<>>
        \/ \E i \in 1..Len(LoadedRows(in)) :
               normalize_category(LoadedRows(in)[i], in.columns) # NA}

(***************************************************************************)
(* Single records: the names, ranks and token lists that exercise the      *)
(* extractors, the sheet-count bounds, the rank buckets and the keyword    *)
(* cut, each as the only row of one CSV.                                   *)
(***************************************************************************)
DetailRow(name, price, rank) == RawRow(<<"A">>, NA, CalmF, name, price, rank)

\* Names around the sheet-count bounds and with the unit patterns in every
\* order; the price of a row with a valid sheet count makes its unit price 2.
SheetRows ==
    { DetailRow(<<"3", "0", "mae", " ", "2", "gae", "ip">>, <<"1", "2", "0">>, <<"1">>),
      DetailRow(<<"5", "mae">>, <<"6", "0">>, <<"1">>),
      DetailRow(<<"1", "0", "mae">>, <<"2", "0">>, <<"1">>),
      DetailRow(<<"1", "0", "0", "0", "mae">>, <<"2", ",", "0", "0", "0">>, <<"1">>),
      DetailRow(<<"1", "0", "0", "1", "mae">>, <<"6", "0">>, <<"1">>),
      DetailRow(<<"0", "mae">>, <<"6", "0">>, <<"1">>),
      DetailRow(<<"5", "0", "0", "mae", " ", "x", "2">>, <<"2", "0", "0", "0">>, <<"1">>),
      DetailRow(<<"5", "0", "1", "mae", " ", "x", "2">>, <<"6", "0">>, <<"1">>),
      DetailRow(<<"5", "mae", " ", "2", "gae">>, <<"2", "0">>, <<"1">>),
      DetailRow(<<"1", "0", "mae", " ", "2", "paek", " ", "3", "gae">>, <<"6", "0">>, <<"1">>),
      DetailRow(<<"x", "2", " ", "1", "0", "mae", " ", "3", "paek">>, <<"6", "0">>, <<"1">>),
      DetailRow(<<"1", "0", "mae", " ", "X", " ", "4">>, <<"8", "0">>, <<"1">>),
      DetailRow(<<"2", "0", "mae", " ", "3", "gae", " ", "5", "gae">>, <<"1", "2", "0">>, <<"1">>),
      DetailRow(<<"2", "0", " ", "mae", " ", "x", "3", "x", "5">>, <<"1", "2", "0">>, <<"1">>),
      DetailRow(<<"a", "b">>, <<"6", "0">>, <<"1">>),
      DetailRow(NA, <<"6", "0">>, <<"1">>) }

\* page_rank cells at both ends of every bucket, non-positive, unparsable
\* and missing.
DetailRanks ==
    { <<"1">>, <<"1", "0">>, <<"1", "1">>, <<"2", "0">>, <<"2", "1">>, <<"5", "0">>,
      <<"5", "1">>, <<"1", "0", "0">>, <<"1", "0", "1">>, <<"0">>, <<"-", "1">>,
      <<"x">>, NA }

RankRows == {DetailRow(Name30, <<"6", "0">>, r) : r \in DetailRanks}

TokenLetters == <<"a", "b", "c", "d", "e">>

\* The i-th of 25 distinct two-letter tokens.
Token(i) ==
    <<TokenLetters[((i - 1) \div Len(TokenLetters)) + 1],
      TokenLetters[((i - 1) % Len(TokenLetters)) + 1]>>

RECURSIVE Tokens(_, _)
\* Token(i) .. Token(j), each followed by a space.
Tokens(i, j) == IF i > j THEN <<>> ELSE Token(i) \o <<" ">> \o Tokens(i + 1, j)

\* A name of more distinct tokens than the keyword table keeps: 21 tokens
\* once each, then a 22nd twice.
KeywordName == Tokens(1, 22) \o Token(22)

KeywordRowsInput == {DetailRow(KeywordName, <<"6", "0">>, <<"1">>)}

\* price cells: zero, negative, missing, unparsable and plain, on a name with
\* a valid sheet count.
PriceRows ==
    {DetailRow(Name30, p, <<"1">>) :
        p \in {<<"0">>, <<"-", "6", "0">>, NA, <<"6", "x">>, <<"6", "0">>}}

\* A name with capitals, punctuation, a stopword alone and inside a longer
\* token, and one-letter tokens: "AB-c(<paedeu>) x <paedeu>a,30<mae>!".
PunctuatedName ==
    <<"A", "B", "-", "c", "(", "pae", "deu", ")", " ", "x", " ", "pae", "deu", "a", ",",
      "3", "0", "mae", "!">>

TokenRows == {DetailRow(PunctuatedName, <<"6", "0">>, <<"1">>)}

DetailRows == SheetRows \cup RankRows \cup KeywordRowsInput \cup PriceRows \cup TokenRows

\* Two records of one cohort whose tokens tie: "cd" and "ef" occur twice,
\* "cd" first, and "ab" once, before both.
TiedTokenRows ==
    << DetailRow(<<"a", "b", " ", "c", "d">>, <<"6", "0">>, <<"1">>),
       DetailRow(<<"c", "d", " ", "e", "f", " ", "e", "f">>, <<"6", "0">>, <<"4">>) >>

\* The cells a category column can hold: missing, blank, plain, with
\* surrounding blanks, and with a blank inside.
CategoryCells == {NA, <<" ">>, <<"A">>, <<" ", "A", " ">>, <<"A", " ", "B">>}

\* The headers with both, or only one, of the category columns.
CategoryHeaders == {AllColumns, AllColumns \ {"category2"}, AllColumns \ {"category1"}}

\* Two records, the second with every pair of category cells, under every
\* header of CategoryHeaders; at least one of the two has a category.
CategoryInputs ==
    {in \in {FileSystem(c, TRUE,
                 {File(FileNames[1],
                       <<DetailRow(Name30, <<"6", "0">>, <<"1">>),
                         RawRow(c1, c2, CalmF, Name30, <<"2", "4", "0">>, <<"4">>)>>)}, {}) :
                 c \in CategoryHeaders, c1 \in CategoryCells, c2 \in CategoryCells} :
        \E i \in 1..Len(LoadedRows(in)) :
            normalize_category(LoadedRows(in)[i], in.columns) # NA}

\* Three records of one cohort: two with the same unit price and a third,
\* dearer one whose page_rank cell is empty.
MissingRankRows ==
    << DetailRow(Name30, <<"6", "0">>, <<"1">>),
       DetailRow(Name30, <<"6", "0">>, <<"4">>),
       DetailRow(Name30, <<"2", "4", "0">>, NA) >>

DetailInputs ==
    {FileSystem(AllColumns, TRUE, {File(FileNames[1], rows)}, {}) :
        rows \in {<<r>> : r \in DetailRows} \cup {TiedTokenRows, MissingRankRows}}
    \cup CategoryInputs

(***************************************************************************)
(* State                                                                   *)
(***************************************************************************)
VARIABLES
    pc,          \* the block of main that runs next, "done" or "failed"
    input,       \* the file system load_inputs looks at
    df,          \* the data frame of main
    error,       \* the exception that ended the run, "" when none
    computed,    \* the derived tables computed so far
    written,     \* the files written to ./output so far
    positioning_summary,
    corr_rank_price,
    category_totals,
    category_sov,
    market_gap,
    top_keywords,
    calmf_products,
    calmf_vs_market,
    outliers,
    data_quality,
    api_pc,        \* where search_all_products stands: "idle" before the call
    max_results,   \* its argument, after line 356 at most the API limit
    start,         \* the loop variable of line 358
    all_products,  \* the page frames kept so far, each by its number of rows
    requests,      \* the page requests sent so far, each with its outcome
    result,        \* the number of rows of the frame returned, NoResult before
    api_error      \* the exception that left the call, "" when none

tables ==
    <<positioning_summary, corr_rank_price, category_totals, category_sov, market_gap,
      top_keywords, calmf_products, calmf_vs_market, outliers, data_quality>>

\* The state of the shopping-search client (naver_api/api_client.py).
client == <<api_pc, max_results, start, all_products, requests, result, api_error>>

vars == <<pc, input, df, error, computed, written, tables, client>>

\* What search_all_products has returned before it returns.
NoResult == -1

\* No search is running.
ClientIdle ==
    /\ api_pc = "idle"
    /\ max_results = 0
    /\ start = 0
    /\ all_products = <<>>
    /\ requests = <<>>
    /\ result = NoResult
    /\ api_error = ""

\* The eleven files main writes.
Artifacts ==
    {"clean_long.csv", "positioning_scatter.csv", "positioning_summary.csv",
     "corr_rank_price.csv", "category_sov.csv", "market_gap.csv", "top_keywords.csv",
     "calmf_products.csv", "calmf_vs_market.csv", "outliers.csv", "data_quality.csv"}

\* What main derives from the normalized rows.
DerivedTables ==
    {"classification", "positioning_summary", "corr_rank_price", "category_sov",
     "market_gap", "top_keywords", "calmf_vs_market", "outliers", "data_quality"}

Init ==
    /\ pc = "load_inputs"
    /\ input \in Inputs
    /\ df = <<>>
    /\ error = ""
    /\ computed = {}
    /\ written = {}
    /\ positioning_summary = {}
    /\ corr_rank_price = {}
    /\ category_totals = {}
    /\ category_sov = {}
    /\ market_gap = {}
    /\ top_keywords = {}
    /\ calmf_products = <<>>
    /\ calmf_vs_market = {}
    /\ outliers = <<>>
    /\ data_quality = {}
    /\ ClientIdle

Merge(r, s) == [k \in DOMAIN r \cup DOMAIN s |-> IF k \in DOMAIN s THEN s[k] ELSE r[k]]

MapSeq(s, Op(_)) == [i \in 1..Len(s) |-> Op(s[i])]

\* raise: the run ends with the exception, nothing else changes
Raise(e) ==
    /\ pc' = "failed"
    /\ error' = e

(***************************************************************************)
(* load_inputs                                                             *)
(***************************************************************************)
\* pd.read_csv: a row holds the cells of the columns the CSV has
ReadColumns(r, columns) == [c \in DOMAIN r \cap columns |-> r[c]]

\* lines 44-47: pd.read_csv and the source_file column
read_csv(file, columns) ==
    MapSeq(file.rows, LAMBDA r : Merge(ReadColumns(r, columns), [source_file |-> file.name]))

\* load_inputs without the check of line 41: an empty frame is returned.
LoadInputsUnchecked ==
    /\ pc = "load_inputs"
    /\ LET files == Discover(input)
       IN  df' = concat([i \in 1..Len(files) |-> read_csv(files[i], input.columns)])
    /\ pc' = "normalize"
    /\ UNCHANGED <<client, input, error, computed, written, tables>>

\* load_inputs without the sorted() of lines 38 and 40: the files are read in
\* whatever order the directory listing yields them.
LoadInputsGlobOrder ==
    /\ pc = "load_inputs"
    /\ LET files == Discover(input)
       IN  IF files = <<>>
           THEN /\ Raise("FileNotFoundError")
                /\ UNCHANGED df
           ELSE /\ \E p \in Permutations(1..Len(files)) :
                       df' = concat([i \in 1..Len(files) |->
                                        read_csv(files[p[i]], input.columns)])
                /\ pc' = "normalize"
                /\ UNCHANGED error
    /\ UNCHANGED <<client, input, computed, written, tables>>

LoadInputs ==
    /\ pc = "load_inputs"
    /\ LET files == Discover(input)
       IN  IF files = <<>>
           THEN /\ Raise("FileNotFoundError")
                /\ UNCHANGED df
           ELSE /\ df' = concat([i \in 1..Len(files) |-> read_csv(files[i], input.columns)])
                /\ pc' = "normalize"
                /\ UNCHANGED error
    /\ UNCHANGED <<client, input, computed, written, tables>>

(***************************************************************************)
(* main, lines 112-135: the normalizer                                     *)
(***************************************************************************)
fillna(s, v) == IF s = NA THEN v ELSE s

RECURSIVE FloorLog2(_)
FloorLog2(x) ==
    IF Lt(x, Num(1)) THEN FloorLog2(Mul(x, Num(2))) - 1
    ELSE IF Lt(x, Num(2)) THEN 0
    ELSE FloorLog2(Div(x, Num(2))) + 1

\* np.log in units of ln 2: exact on the unit prices of RowDomain's valid
\* rows, which are powers of two.
np_log(x) == Num(FloorLog2(x))

\* The range test of lines 123-125 with the bounds themselves outside.
is_unrealistic_sheets_closed(total_sheets) ==
    notna(total_sheets) /\ (Le(total_sheets, Num(MinSheets)) \/ ~Lt(total_sheets, Num(MaxSheets)))

is_unrealistic_sheets(total_sheets) ==
    notna(total_sheets) /\ (Lt(total_sheets, Num(MinSheets)) \/ Gt(total_sheets, Num(MaxSheets)))

\* is_valid_sheets without the ~is_unrealistic_sheets of line 126.
is_valid_sheets_any_count(total_sheets) == notna(total_sheets) /\ Gt(total_sheets, Num(0))

is_valid_sheets(total_sheets) ==
    notna(total_sheets) /\ ~is_unrealistic_sheets(total_sheets) /\ Gt(total_sheets, Num(0))

\* The normalizer without the is_valid_sheets condition of line 132.
NormalizeRowAnySheets(row, columns) ==
    LET price           == ToNumeric(RemoveCommas(row.price))
        page_rank       == ToNumeric(row.page_rank)
        sheets_per_unit == extract_sheets_per_unit(row.product_name)
        units           == extract_units(row.product_name)
        total_sheets    == Mul(sheets_per_unit, Num(units))
        valid           == is_valid_sheets(total_sheets)
        unit_price      == IF Gt(total_sheets, Num(0)) THEN Div(price, total_sheets) ELSE NaN
    IN  Merge(row,
          [price |-> price,
           page_rank |-> page_rank,
           week_start_date |-> fillna(row.week_start_date, <<"n", "a", "n">>),
           brand |-> fillna(row.brand, <<"U", "n", "k", "n", "o", "w", "n">>),
           category_group |-> normalize_category(row, columns),
           sheets_per_unit |-> sheets_per_unit,
           units |-> units,
           total_sheets |-> total_sheets,
           has_sheets |-> notna(sheets_per_unit),
           is_unrealistic_sheets |-> is_unrealistic_sheets(total_sheets),
           is_valid_sheets |-> valid,
           unit_price |-> unit_price,
           log_unit_price |-> IF Gt(unit_price, Num(0)) THEN np_log(unit_price) ELSE NaN])

NormalizeRow(row, columns) ==
    LET price           == ToNumeric(RemoveCommas(row.price))
        page_rank       == ToNumeric(row.page_rank)
        sheets_per_unit == extract_sheets_per_unit(row.product_name)
        units           == extract_units(row.product_name)
        total_sheets    == Mul(sheets_per_unit, Num(units))
        valid           == is_valid_sheets(total_sheets)
        unit_price      == IF Gt(total_sheets, Num(0)) THEN Div(price, total_sheets) ELSE NaN
    IN  Merge(row,
          [price |-> price,
           page_rank |-> page_rank,
           week_start_date |-> fillna(row.week_start_date, <<"n", "a", "n">>),
           brand |-> fillna(row.brand, <<"U", "n", "k", "n", "o", "w", "n">>),
           category_group |-> normalize_category(row, columns),
           sheets_per_unit |-> sheets_per_unit,
           units |-> units,
           total_sheets |-> total_sheets,
           has_sheets |-> notna(sheets_per_unit),
           is_unrealistic_sheets |-> is_unrealistic_sheets(total_sheets),
           is_valid_sheets |-> valid,
           unit_price |-> unit_price,
           log_unit_price |-> IF Gt(unit_price, Num(0)) /\ valid THEN np_log(unit_price) ELSE NaN])

\* The columns main indexes before its first write; a missing one is a KeyError.
RequiredColumns == {"price", "page_rank", "week_start_date", "brand", "product_name"}

Normalize ==
    /\ pc = "normalize"
    /\ IF RequiredColumns \subseteq input.columns
       THEN /\ df' = MapSeq(df, LAMBDA r : NormalizeRow(r, input.columns))
            /\ pc' = "classify"
            /\ computed' = computed \cup {"normalized"}
            /\ UNCHANGED error
       ELSE /\ Raise("KeyError")
            /\ UNCHANGED <<df, computed>>
    /\ UNCHANGED <<client, input, written, tables>>

(***************************************************************************)
(* Cohorts: df.groupby(["week_start_date", "category_group"])              *)
(***************************************************************************)
Key(r) == <<r.week_start_date, r.category_group>>

\* groupby's default dropna=True: a row whose category_group is null is in
\* no group.
InGroup(r) == r.category_group # NA

Groups(d) == {Key(d[i]) : i \in {j \in 1..Len(d) : InGroup(d[j])}}

GroupRows(d, key) == SelectSeq(d, LAMBDA r : Key(r) = key)

Column(rows, Op(_)) == [i \in 1..Len(rows) |-> Op(rows[i])]

(***************************************************************************)
(* main, lines 153-208: segment, price band, rank bucket, IQR outliers     *)
(***************************************************************************)
\* A null label (pd.NA in an object column).
NoLabel == "<NA>"

\* df[SEGMENT_BASE].where(df["is_valid_sheets"])
\* The segmentation base without the where(is_valid_sheets) of line 156.
SegmentValueUnmasked(r) ==
    IF SEGMENT_BASE = "unit_price" THEN r.unit_price ELSE r.log_unit_price

SegmentValue(r) ==
    IF r.is_valid_sheets
    THEN (IF SEGMENT_BASE = "unit_price" THEN r.unit_price ELSE r.log_unit_price)
    ELSE NaN

\* The segment with the thresholds themselves in the upper segment.
SegmentOfStrict(v, p50, p85) ==
    IF notna(v) /\ notna(p50) /\ Lt(v, p50) THEN "Mass"
    ELSE IF notna(v) /\ notna(p50) /\ notna(p85) /\ Lt(v, p85) THEN "Premium"
    ELSE IF notna(v) /\ notna(p85) THEN "Luxury"
    ELSE NoLabel

\* The segments with the comparisons of lines 167-174 turned around.
SegmentOfReversed(v, p50, p85) ==
    IF notna(v) /\ notna(p50) /\ Le(v, p50) THEN "Luxury"
    ELSE IF notna(v) /\ notna(p50) /\ notna(p85) /\ Gt(v, p50) /\ Le(v, p85) THEN "Premium"
    ELSE IF notna(v) /\ notna(p85) /\ Gt(v, p85) THEN "Mass"
    ELSE NoLabel

\* np.select: the first condition that holds decides, default pd.NA
SegmentOf(v, p50, p85) ==
    IF notna(v) /\ notna(p50) /\ Le(v, p50) THEN "Mass"
    ELSE IF notna(v) /\ notna(p50) /\ notna(p85) /\ Gt(v, p50) /\ Le(v, p85) THEN "Premium"
    ELSE IF notna(v) /\ notna(p85) /\ Gt(v, p85) THEN "Luxury"
    ELSE NoLabel

RECURSIVE MaximumAccumulate(_)
\* np.maximum.accumulate
MaximumAccumulate(q) ==
    IF Len(q) <= 1 THEN q
    ELSE LET init == MaximumAccumulate(SubSeq(q, 1, Len(q) - 1))
             last == init[Len(init)]
         IN  Append(init, IF Lt(last, q[Len(q)]) THEN q[Len(q)] ELSE last)

\* valid.quantile(PRICE_BAND_QUANTILES) made non-decreasing
BandEdges(values) ==
    MaximumAccumulate([i \in 1..Len(PRICE_BAND_QUANTILES) |->
                          Quantile(values, PRICE_BAND_QUANTILES[i])])

\* np.searchsorted(quantiles, v, side="right") - 1
SearchSortedRight(edges, v) == Cardinality({i \in 1..Len(edges) : Le(edges[i], v)}) - 1

\* np.clip(band_idx, 0, len(PRICE_BAND_LABELS) - 1)
Clip(i, lo, hi) == IF i < lo THEN lo ELSE IF i > hi THEN hi ELSE i

\* The band index without the clip to the label range.
BandIndexUnclipped(edges, v) == SearchSortedRight(edges, v)

BandIndex(edges, v) == Clip(SearchSortedRight(edges, v), 0, Len(PRICE_BAND_LABELS) - 1)

\* The label of band index i; an index beyond the labels is an IndexError,
\* which never arises after the clip.
BandLabel(i) == IF i + 1 \in 1..Len(PRICE_BAND_LABELS) THEN PRICE_BAND_LABELS[i + 1] ELSE "IndexError"

\* A group with fewer than 2 non-null values is skipped by compute_price_band.
BandedGroup(values) == Len(dropna(values)) >= 2

compute_price_band(values, v) ==
    IF BandedGroup(values) /\ notna(v)
    THEN BandLabel(BandIndex(BandEdges(values), v))
    ELSE NoLabel

\* The bucket loop without the fillna(-1) of line 182 and with no bucket for
\* a rank no range holds.
rank_bucket_4_unfilled(page_rank) ==
    IF Le(Num(1), page_rank) /\ Le(page_rank, Num(10)) THEN "1-10"
    ELSE IF Le(Num(11), page_rank) /\ Le(page_rank, Num(20)) THEN "11-20"
    ELSE IF Le(Num(21), page_rank) /\ Le(page_rank, Num(50)) THEN "21-50"
    ELSE IF Le(Num(51), page_rank) /\ Le(page_rank, Num(100)) THEN "51-100"
    ELSE IF Gt(page_rank, Num(100)) THEN "101+"
    ELSE NoLabel

rank_bucket_4(page_rank) ==
    LET rank == IF isna(page_rank) THEN Num(-1) ELSE page_rank
    IN  IF Le(Num(1), rank) /\ Le(rank, Num(10)) THEN "1-10"
        ELSE IF Le(Num(11), rank) /\ Le(rank, Num(20)) THEN "11-20"
        ELSE IF Le(Num(21), rank) /\ Le(rank, Num(50)) THEN "21-50"
        ELSE IF Le(Num(51), rank) /\ Le(rank, Num(100)) THEN "51-100"
        ELSE "101+"

LogUnitPrice(r) == r.log_unit_price

\* 1.5 as a float
TukeyFactor == Rat(3, 2)

\* The Tukey rule with closed fences: a value on a fence is flagged.
is_outlier_iqr_inclusive(x, lower_bound, upper_bound) ==
    /\ notna(x)
    /\ notna(lower_bound)
    /\ notna(upper_bound)
    /\ (Le(x, lower_bound) \/ Le(upper_bound, x))

is_outlier_iqr(x, lower_bound, upper_bound) ==
    /\ notna(x)
    /\ notna(lower_bound)
    /\ notna(upper_bound)
    /\ (Lt(x, lower_bound) \/ Gt(x, upper_bound))

\* The statistics of one group: groupby(...).quantile([0.5, 0.85]) of the
\* segment value, groupby(...).quantile([0.25, 0.75]) of log_unit_price, and
\* the group's segment values for compute_price_band.
\* mean of the non-null values, NaN (0/0) when there is none
Mean(s) == Div(SumSeq(dropna(s)), Num(Len(dropna(s))))

\* x.std(ddof=0) squared: the mean squared deviation from the mean
Variance(s) ==
    LET v == dropna(s)
        m == Mean(v)
    IN  Mean([i \in 1..Len(v) |-> Mul(Sub(v[i], m), Sub(v[i], m))])

\* The error of the float mean avg = sum / count of nanvar (and of the group
\* mean): none for fewer than three values, input.mean_ulps for three or
\* more equal values; for unequal values it is negligible against their
\* spread and taken as none.
MeanError(s) ==
    LET v == dropna(s)
    IN  IF Len(v) >= 3 /\ \A i, j \in 1..Len(v) : v[i] = v[j] THEN input.mean_ulps ELSE 0

\* np.median
Median(s) == Quantile(s, 10)

\* lines 145-149: the median absolute deviation from the median
Mad(s) ==
    LET v == dropna(s)
        m == Median(v)
    IN  IF Len(v) > 0
        THEN Median([i \in 1..Len(v) |-> LET dev == Sub(v[i], m)
                                          IN  IF Lt(dev, Num(0)) THEN Neg(dev) ELSE dev])
        ELSE NaN

\* Series.where(cond): the value where cond holds, else NaN
where(x, cond) == IF cond THEN x ELSE NaN

\* x * |x|: the square root of a variance is not rational, so a z-score z is
\* held as z * |z|, which is null, infinite, zero, positive or negative
\* exactly when z is.
SignedSquare(x) == Mul(x, [n |-> Abs(x.n), d |-> x.d])

\* The factor 1.4826 of line 151.
MadScale == Rat(7413, 5000)

\* lines 150-151
robust_z(x, median, mad) ==
    Div(Sub(x, median), Mul(MadScale, where(mad, Gt(mad, Num(0)))))

\* lines 141-142, as z * |z|.  std_log > 0 holds exactly when the variance is
\* positive, and with a mean that is off by err units every deviation of
\* the equal values is -err units and the standard deviation is one unit.
z_log(x, mean, variance, err) ==
    IF err # 0
    THEN (IF notna(x) THEN Num(-err) ELSE NaN)
    ELSE Div(SignedSquare(Sub(x, mean)), where(variance, Gt(variance, Num(0))))

CohortStats(d, key) ==
    LET rows   == GroupRows(d, key)
        values == Column(rows, SegmentValue)
        logs   == Column(rows, LogUnitPrice)
    IN  [values |-> values,
         mean |-> Mean(logs),
         variance |-> Variance(logs),
         mean_error |-> MeanError(logs),
         median |-> Median(logs),
         mad |-> Mad(logs),
         p50 |-> Quantile(values, 10),
         p85 |-> Quantile(values, 17),
         q1 |-> Quantile(logs, 5),
         q3 |-> Quantile(logs, 15)]

\* What df.join(..., on=group_cols) gives a row that is in no group.
NoStats ==
    [values |-> <<>>, mean |-> NaN, variance |-> NaN, mean_error |-> 0, median |-> NaN,
     mad |-> NaN, p50 |-> NaN, p85 |-> NaN, q1 |-> NaN, q3 |-> NaN]

ClassifyRow(r, stats) ==
    LET st    == IF InGroup(r) THEN stats[Key(r)] ELSE NoStats
        v     == SegmentValue(r)
        iqr   == Sub(st.q3, st.q1)
        lower == Sub(st.q1, Mul(TukeyFactor, iqr))
        upper == Add(st.q3, Mul(TukeyFactor, iqr))
    IN  Merge(r,
          [z_log |-> z_log(r.log_unit_price, st.mean, st.variance, st.mean_error),
           robust_z |-> robust_z(r.log_unit_price, st.median, st.mad),
           p50 |-> st.p50,
           p85 |-> st.p85,
           segment |-> SegmentOf(v, st.p50, st.p85),
           price_band |-> compute_price_band(st.values, v),
           rank_bucket_4 |-> rank_bucket_4(r.page_rank),
           q1 |-> st.q1,
           q3 |-> st.q3,
           iqr |-> iqr,
           lower_bound |-> lower,
           upper_bound |-> upper,
           is_outlier_iqr |-> is_outlier_iqr(r.log_unit_price, lower, upper)])

\* Classification of the rows with a valid sheet count only.
ClassifyAllValidOnly(d) ==
    LET stats == [k \in Groups(d) |-> CohortStats(d, k)]
    IN  MapSeq(SelectSeq(d, LAMBDA r : r.is_valid_sheets), LAMBDA r : ClassifyRow(r, stats))

ClassifyAll(d) ==
    LET stats == [k \in Groups(d) |-> CohortStats(d, k)]
    IN  MapSeq(d, LAMBDA r : ClassifyRow(r, stats))

Classify ==
    /\ pc = "classify"
    /\ IF SEGMENT_BASE \in {"unit_price", "log_unit_price"}
       THEN /\ df' = ClassifyAll(df)
            /\ pc' = "clean_long"
            /\ computed' = computed \cup {"classification"}
            /\ UNCHANGED error
       ELSE /\ Raise("ValueError")
            /\ UNCHANGED <<df, computed>>
    /\ UNCHANGED <<client, input, written, tables>>

(***************************************************************************)
(* main, lines 210-231: clean_long.csv and positioning_scatter.csv         *)
(***************************************************************************)
to_csv(file) == written' = written \cup {file}

WriteCleanLong ==
    /\ pc = "clean_long"
    /\ to_csv("clean_long.csv")
    /\ pc' = "positioning_scatter"
    /\ UNCHANGED <<client, input, df, error, computed, tables>>

\* The columns of scatter_cols that come from the CSV.
ScatterInputColumns ==
    {"week_start_date", "category1", "category2", "category3", "brand", "product_name",
     "page_rank"}

\* df[scatter_cols] is a KeyError when the CSV lacks one of the columns.
WritePositioningScatter ==
    /\ pc = "positioning_scatter"
    /\ IF ScatterInputColumns \subseteq input.columns
       THEN /\ to_csv("positioning_scatter.csv")
            /\ pc' = "positioning_summary"
            /\ UNCHANGED error
       ELSE /\ Raise("KeyError")
            /\ UNCHANGED written
    /\ UNCHANGED <<client, input, df, computed, tables>>

(***************************************************************************)
(* main, lines 233-245: positioning_summary.csv                            *)
(***************************************************************************)
UnitPrice(r) == r.unit_price

\* Series.count(): the non-null entries
CountNotNa(s) == Len(dropna(s))

PositioningSummaryTable(d) ==
    LET valid == SelectSeq(d, LAMBDA r : r.is_valid_sheets /\ InGroup(r))
        keys  == {<<Key(valid[i]), valid[i].rank_bucket_4>> : i \in 1..Len(valid)}
    IN  { LET prices == Column(SelectSeq(valid, LAMBDA r : Key(r) = k[1] /\ r.rank_bucket_4 = k[2]),
                               UnitPrice)
              q1     == Quantile(prices, 5)
              q3     == Quantile(prices, 15)
          IN  [week_start_date |-> k[1][1], category_group |-> k[1][2], rank_bucket_4 |-> k[2],
               item_count |-> CountNotNa(prices), median |-> Quantile(prices, 10),
               q1 |-> q1, q3 |-> q3, iqr |-> Sub(q3, q1)]
          : k \in keys }

PositioningSummary ==
    /\ pc = "positioning_summary"
    /\ positioning_summary' = PositioningSummaryTable(df)
    /\ computed' = computed \cup {"positioning_summary"}
    /\ to_csv("positioning_summary.csv")
    /\ pc' = "corr_rank_price"
    /\ UNCHANGED <<client, input, df, error, corr_rank_price, category_totals, category_sov,
                   market_gap, top_keywords, calmf_products, calmf_vs_market, outliers,
                   data_quality>>

(***************************************************************************)
(* main, lines 247-283: corr_rank_price.csv                                *)
(***************************************************************************)
\* A statistic of scipy is kept as null or not null; its value is not
\* modelled.
StatNull == "nan"

StatValue == "float"

\* group[["page_rank", "log_unit_price"]].dropna()
CorrSubset(rows) == SelectSeq(rows, LAMBDA r : notna(r.page_rank) /\ notna(r.log_unit_price))

IsConstant(s) == \A i, j \in 1..Len(s) : s[i] = s[j]

\* linregress(x, y) with all x identical: scipy raises ValueError; builds
\* older than that check return NaN.
LinregressDegenerate(subset) == Len(subset) >= 2 /\ IsConstant(Column(subset, LogUnitPrice))

\* The row main appends for one group; n < 2 gives the all-null row.
CorrRow(d, key) ==
    LET subset == CorrSubset(GroupRows(d, key))
        n      == Len(subset)
        ranks  == Column(subset, LAMBDA r : r.page_rank)
        logs   == Column(subset, LogUnitPrice)
        rankst == IF n < 2 \/ IsConstant(ranks) \/ IsConstant(logs) THEN StatNull ELSE StatValue
        linst  == IF n < 2 \/ IsConstant(logs) THEN StatNull ELSE StatValue
    IN  [week_start_date |-> key[1], category_group |-> key[2], n |-> n,
         spearman_corr |-> rankst, spearman_p |-> rankst,
         kendall_corr |-> rankst, kendall_p |-> rankst,
         slope |-> linst, r2 |-> linst]

CorrRows(d) == {CorrRow(d, key) : key \in Groups(d)}

CorrRankPrice ==
    /\ pc = "corr_rank_price"
    /\ \/ /\ corr_rank_price' = CorrRows(df)
          /\ computed' = computed \cup {"corr_rank_price"}
          /\ to_csv("corr_rank_price.csv")
          /\ pc' = "category_sov"
          /\ UNCHANGED error
       \/ /\ \E key \in Groups(df) : LinregressDegenerate(CorrSubset(GroupRows(df, key)))
          /\ Raise("ValueError")
          /\ UNCHANGED <<corr_rank_price, computed, written>>
    /\ UNCHANGED <<client, input, df, positioning_summary, category_totals, category_sov,
                   market_gap, top_keywords, calmf_products, calmf_vs_market, outliers,
                   data_quality>>

(***************************************************************************)
(* main, lines 285-315: rank weights and category_sov.csv                  *)
(***************************************************************************)
\* The integer square root; np.sqrt is exact on RowDomain's ranks, which are
\* perfect squares.
ISqrt(n) == CHOOSE k \in 0..n : k * k <= n /\ (k + 1) * (k + 1) > n

np_sqrt(x) == Rat(ISqrt(x.n), ISqrt(x.d))

rank_weight_inv(page_rank) ==
    IF Gt(page_rank, Num(0)) THEN Div(Num(1), page_rank) ELSE NaN

rank_weight_inv_sqrt(page_rank) ==
    IF Gt(page_rank, Num(0)) THEN Div(Num(1), np_sqrt(page_rank)) ELSE NaN

\* ("product_name", "count")
CountNames(rows) == Len(SelectSeq(rows, LAMBDA r : r.product_name # NA))

WeightInv(r) == r.rank_weight_inv

WeightInvSqrt(r) == r.rank_weight_inv_sqrt

\* The totals with total_count as the size of the group ("size") instead of
\* its number of product names ("count", line 293).
CategoryTotalsBySize(d) ==
    { LET rows == GroupRows(d, key)
      IN  [week_start_date |-> key[1], category_group |-> key[2],
           total_count |-> Len(rows),
           total_weight_inv |-> SumSeq(Column(rows, WeightInv)),
           total_weight_inv_sqrt |-> SumSeq(Column(rows, WeightInvSqrt))]
      : key \in Groups(d) }

CategoryTotals(d) ==
    { LET rows == GroupRows(d, key)
      IN  [week_start_date |-> key[1], category_group |-> key[2],
           total_count |-> CountNames(rows),
           total_weight_inv |-> SumSeq(Column(rows, WeightInv)),
           total_weight_inv_sqrt |-> SumSeq(Column(rows, WeightInvSqrt))]
      : key \in Groups(d) }

TotalsOf(totals, week, category) ==
    CHOOSE t \in totals : t.week_start_date = week /\ t.category_group = category

\* The rows of one brand within one group: groupby(group_cols + ["brand"])
BrandRows(d, key, brand) == SelectSeq(d, LAMBDA r : Key(r) = key /\ r.brand = brand)

BrandKeys(d) == {<<Key(d[i]), d[i].brand>> : i \in {j \in 1..Len(d) : InGroup(d[j])}}

CategorySovTable(d, totals) ==
    { LET rows   == BrandRows(d, k[1], k[2])
          t      == TotalsOf(totals, k[1][1], k[1][2])
          items  == CountNames(rows)
          w      == SumSeq(Column(rows, WeightInv))
          wsqrt  == SumSeq(Column(rows, WeightInvSqrt))
      IN  [week_start_date |-> k[1][1], category_group |-> k[1][2], brand |-> k[2],
           item_count |-> items, weight_inv |-> w, weight_inv_sqrt |-> wsqrt,
           total_count |-> t.total_count, total_weight_inv |-> t.total_weight_inv,
           total_weight_inv_sqrt |-> t.total_weight_inv_sqrt,
           sov |-> Div(Num(items), Num(t.total_count)),
           weighted_sov_inv_rank |-> Div(w, t.total_weight_inv),
           weighted_sov_inv_sqrt |-> Div(wsqrt, t.total_weight_inv_sqrt)]
      : k \in BrandKeys(d) }

WithRankWeights(d) ==
    MapSeq(d, LAMBDA r : Merge(r, [rank_weight_inv |-> rank_weight_inv(r.page_rank),
                                   rank_weight_inv_sqrt |-> rank_weight_inv_sqrt(r.page_rank)]))

CategorySov ==
    /\ pc = "category_sov"
    /\ df' = WithRankWeights(df)
    /\ category_totals' = CategoryTotals(df')
    /\ category_sov' = CategorySovTable(df', category_totals')
    /\ computed' = computed \cup {"category_sov"}
    /\ to_csv("category_sov.csv")
    /\ pc' = "market_gap"
    /\ UNCHANGED <<client, input, error, positioning_summary, corr_rank_price, market_gap,
                   top_keywords, calmf_products, calmf_vs_market, outliers, data_quality>>

(***************************************************************************)
(* main, lines 317-331: market_gap.csv                                     *)
(***************************************************************************)
gap_score(weighted_sov, supply_share) == Div(weighted_sov, supply_share)

BandKeys(d) ==
    {<<Key(d[i]), d[i].price_band>> :
        i \in {j \in 1..Len(d) : InGroup(d[j]) /\ d[j].price_band # NoLabel}}

MarketGapTable(d, totals) ==
    { LET rows   == SelectSeq(d, LAMBDA r : Key(r) = k[1] /\ r.price_band = k[2])
          t      == TotalsOf(totals, k[1][1], k[1][2])
          items  == CountNames(rows)
          wsqrt  == SumSeq(Column(rows, WeightInvSqrt))
          wsov   == Div(wsqrt, t.total_weight_inv_sqrt)
          supply == Div(Num(items), Num(t.total_count))
      IN  [week_start_date |-> k[1][1], category_group |-> k[1][2], price_band |-> k[2],
           item_count |-> items,
           brand_count |-> Cardinality({rows[i].brand : i \in 1..Len(rows)}),
           weight_inv_sqrt |-> wsqrt, total_count |-> t.total_count,
           total_weight_inv_sqrt |-> t.total_weight_inv_sqrt,
           weighted_sov |-> wsov, supply_share |-> supply,
           gap_score |-> gap_score(wsov, supply)]
      : k \in BandKeys(d) }

MarketGap ==
    /\ pc = "market_gap"
    /\ market_gap' = MarketGapTable(df, category_totals)
    /\ computed' = computed \cup {"market_gap"}
    /\ to_csv("market_gap.csv")
    /\ pc' = "top_keywords"
    /\ UNCHANGED <<client, input, df, error, positioning_summary, corr_rank_price, category_totals,
                   category_sov, top_keywords, calmf_products, calmf_vs_market, outliers,
                   data_quality>>

(***************************************************************************)
(* tokenize and main, lines 333-349: top_keywords.csv                      *)
(***************************************************************************)
UpperCase == <<"A", "B", "C", "F", "M", "X">>

LowerCase == <<"a", "b", "c", "f", "m", "x">>

Letters == {"a", "b", "c", "d", "e", "f", "l", "m", "x"}

\* The Hangul syllables (U+AC00..U+D7A3) that occur in the names and in
\* STOPWORDS, romanized.
Hangul ==
    {"mae", "gae", "paek", "pae", "deu", "dae", "yong", "ryang", "gi", "hoek", "se", "teu",
     "jeung", "jeong", "bon", "pum", "ri", "pil", "han", "teuk", "ga", "mi", "ni", "hyu",
     "dan", "dok", "gu", "seong", "jeon", "kam", "peu", "ip"}

STOPWORDS ==
    { <<"pae", "deu">>, <<"dae", "yong", "ryang">>, <<"gi", "hoek">>, <<"se", "teu">>,
      <<"jeung", "jeong">>, <<"bon", "pum">>, <<"ri", "pil">>, <<"han", "jeong">>,
      <<"teuk", "ga">>, <<"jeong", "pum">>, <<"mi", "ni">>, <<"hyu", "dae", "yong">>,
      <<"jeung", "jeong", "pum">>, <<"gi", "hoek", "jeon">>, <<"dan", "dok">>,
      <<"gu", "seong">> }

\* str.lower() on one character
Lower(c) ==
    IF \E i \in 1..Len(UpperCase) : UpperCase[i] = c
    THEN LowerCase[CHOOSE i \in 1..Len(UpperCase) : UpperCase[i] = c]
    ELSE c

\* A character that [^0-9a-zA-Z<Hangul>]+ does not replace by a space.
IsWordChar(c) == c \in Digits \cup Letters \cup Hangul

RECURSIVE Split(_, _)
\* str.split() of the cleaned text: the maximal runs of word characters;
\* cur is the run being read.
Split(text, cur) ==
    IF text = <<>> THEN (IF cur = <<>> THEN <<>> ELSE <<cur>>)
    ELSE IF IsWordChar(Head(text)) THEN Split(Tail(text), Append(cur, Head(text)))
    ELSE (IF cur = <<>> THEN <<>> ELSE <<cur>>) \o Split(Tail(text), <<>>)

\* The shortest token tokenize keeps.
MinTokenLen == 2

\* tokenize without the length test of lines 102-103.
tokenize_any_length(text) ==
    IF text = NA THEN <<>>
    ELSE SelectSeq(Split(MapSeq(text, Lower), <<>>), LAMBDA token : token \notin STOPWORDS)

tokenize(text) ==
    IF text = NA THEN <<>>
    ELSE SelectSeq(Split(MapSeq(text, Lower), <<>>),
                   LAMBDA token : token \notin STOPWORDS /\ Len(token) >= MinTokenLen)

RECURSIVE Flatten(_)
Flatten(ss) == IF ss = <<>> THEN <<>> ELSE Head(ss) \o Flatten(Tail(ss))

\* The tokens of a group in the order Counter.update meets them.
GroupTokens(rows) ==
    Flatten(MapSeq(SelectSeq(rows, LAMBDA r : r.product_name # NA),
                   LAMBDA r : tokenize(r.product_name)))

Occurrences(tokens, t) == Cardinality({i \in 1..Len(tokens) : tokens[i] = t})

FirstIndex(tokens, t) == Min({i \in 1..Len(tokens) : tokens[i] = t})

\* The most_common(20) of a Counter.
MaxKeywords == 20

\* The position of token t among the distinct tokens in insertion order,
\* whatever their counts.
CommonRankByInsertion(tokens, t) ==
    1 + Cardinality({i \in 1..Len(tokens) :
            FirstIndex(tokens, tokens[i]) = i /\ i < FirstIndex(tokens, t)})

\* Counter.most_common: by count, largest first; equal counts in the order
\* of first insertion.  The 1-based position of token t in that order.
CommonRank(tokens, t) ==
    1 + Cardinality({i \in 1..Len(tokens) :
            /\ FirstIndex(tokens, tokens[i]) = i
            /\ \/ Occurrences(tokens, tokens[i]) > Occurrences(tokens, t)
               \/ /\ Occurrences(tokens, tokens[i]) = Occurrences(tokens, t)
                  /\ i < FirstIndex(tokens, t)})

KeywordRows(d) ==
    UNION { LET tokens == GroupTokens(GroupRows(d, key))
            IN  { [week_start_date |-> key[1], category_group |-> key[2],
                   token |-> tokens[i], count |-> Occurrences(tokens, tokens[i]),
                   token_rank |-> CommonRank(tokens, tokens[i])]
                  : i \in {j \in 1..Len(tokens) : CommonRank(tokens, tokens[j]) <= MaxKeywords} }
            : key \in Groups(d) }

TopKeywords ==
    /\ pc = "top_keywords"
    /\ top_keywords' = KeywordRows(df)
    /\ computed' = computed \cup {"top_keywords"}
    /\ to_csv("top_keywords.csv")
    /\ pc' = "calmf_products"
    /\ UNCHANGED <<client, input, df, error, positioning_summary, corr_rank_price, category_totals,
                   category_sov, market_gap, calmf_products, calmf_vs_market, outliers,
                   data_quality>>

(***************************************************************************)
(* main, lines 351-399: calmf_products.csv and calmf_vs_market.csv         *)
(***************************************************************************)
\* str.contains(pattern) with a literal pattern
Contains(text, pattern) ==
    \E i \in 1..(Len(text) - Len(pattern) + 1) : SubSeq(text, i, i + Len(pattern) - 1) = pattern

is_calmf(brand) ==
    LET brand_norm == SelectSeq(MapSeq(brand, Lower), LAMBDA c : c # " ")
    IN  Contains(brand_norm, <<"c", "a", "l", "m", "f">>) \/ Contains(brand_norm, <<"kam", "peu">>)

CalmfProducts ==
    /\ pc = "calmf_products"
    /\ df' = MapSeq(df, LAMBDA r : Merge(r, [is_calmf |-> is_calmf(r.brand)]))
    /\ calmf_products' = SelectSeq(df', LAMBDA r : r.is_calmf)
    /\ to_csv("calmf_products.csv")
    /\ pc' = "calmf_vs_market"
    /\ UNCHANGED <<client, input, error, computed, positioning_summary, corr_rank_price,
                   category_totals, category_sov, market_gap, top_keywords, calmf_vs_market,
                   outliers, data_quality>>

\* The left merge of the three per-group frames; a group without own-brand
\* rows keeps nulls.
CalmfVsMarketTable(d) ==
    LET valid == SelectSeq(d, LAMBDA r : r.is_valid_sheets)
    IN  { LET market == Quantile(Column(GroupRows(valid, key), UnitPrice), 10)
              own    == SelectSeq(GroupRows(valid, key), LAMBDA r : r.is_calmf)
              all    == SelectSeq(GroupRows(d, key), LAMBDA r : r.is_calmf)
              calmf  == IF own = <<>> THEN NaN ELSE Quantile(Column(own, UnitPrice), 10)
          IN  [week_start_date |-> key[1], category_group |-> key[2],
               market_median_unit_price |-> market,
               calmf_median_unit_price |-> calmf,
               calmf_item_count |-> IF all = <<>> THEN NaN ELSE Num(CountNames(all)),
               premium_index |-> Div(calmf, market)]
          : key \in Groups(valid) }

CalmfVsMarket ==
    /\ pc = "calmf_vs_market"
    /\ calmf_vs_market' = CalmfVsMarketTable(df)
    /\ computed' = computed \cup {"calmf_vs_market"}
    /\ to_csv("calmf_vs_market.csv")
    /\ pc' = "outliers"
    /\ UNCHANGED <<client, input, df, error, positioning_summary, corr_rank_price, category_totals,
                   category_sov, market_gap, top_keywords, calmf_products, outliers,
                   data_quality>>

(***************************************************************************)
(* main, lines 401-428: outliers.csv and data_quality.csv                  *)
(***************************************************************************)
Outliers ==
    /\ pc = "outliers"
    /\ outliers' = SelectSeq(df, LAMBDA r : r.is_outlier_iqr)
    /\ computed' = computed \cup {"outliers"}
    /\ to_csv("outliers.csv")
    /\ pc' = "data_quality"
    /\ UNCHANGED <<client, input, df, error, positioning_summary, corr_rank_price, category_totals,
                   category_sov, market_gap, top_keywords, calmf_products, calmf_vs_market,
                   data_quality>>

\* ("<flag>", "mean") of a boolean column
Rate(rows, Flag(_)) == Rat(Len(SelectSeq(rows, Flag)), Len(rows))

DataQualityTable(d) ==
    { LET rows == GroupRows(d, key)
          has  == Rate(rows, LAMBDA r : r.has_sheets)
      IN  [week_start_date |-> key[1], category_group |-> key[2],
           total_count |-> CountNames(rows),
           has_sheets_rate |-> has,
           invalid_sheets_rate |-> Rate(rows, LAMBDA r : r.is_unrealistic_sheets),
           outlier_rate |-> Rate(rows, LAMBDA r : r.is_outlier_iqr),
           missing_sheets_rate |-> Sub(Num(1), has)]
      : key \in Groups(d) }

DataQuality ==
    /\ pc = "data_quality"
    /\ data_quality' = DataQualityTable(df)
    /\ computed' = computed \cup {"data_quality"}
    /\ to_csv("data_quality.csv")
    /\ pc' = "done"
    /\ UNCHANGED <<client, input, df, error, positioning_summary, corr_rank_price, category_totals,
                   category_sov, market_gap, top_keywords, calmf_products, calmf_vs_market,
                   outliers>>

Next ==
    \/ LoadInputs
    \/ Normalize
    \/ Classify
    \/ WriteCleanLong
    \/ WritePositioningScatter
    \/ PositioningSummary
    \/ CorrRankPrice
    \/ CategorySov
    \/ MarketGap
    \/ TopKeywords
    \/ CalmfProducts
    \/ CalmfVsMarket
    \/ Outliers
    \/ DataQuality

Spec == Init /\ [][Next]_vars

\* One run of main on each single-record CSV of DetailInputs.
InitRows ==
    /\ pc = "load_inputs"
    /\ input \in DetailInputs
    /\ df = <<>>
    /\ error = ""
    /\ computed = {}
    /\ written = {}
    /\ positioning_summary = {}
    /\ corr_rank_price = {}
    /\ category_totals = {}
    /\ category_sov = {}
    /\ market_gap = {}
    /\ top_keywords = {}
    /\ calmf_products = <<>>
    /\ calmf_vs_market = {}
    /\ outliers = <<>>
    /\ data_quality = {}
    /\ ClientIdle

SpecRows == InitRows /\ [][Next]_vars

\* One run of main on each input of fewer than MaxRows records.
ShortInputs == {in \in Inputs : Len(LoadedRows(in)) < MaxRows}

InitShort ==
    /\ pc = "load_inputs"
    /\ input \in ShortInputs
    /\ df = <<>>
    /\ error = ""
    /\ computed = {}
    /\ written = {}
    /\ positioning_summary = {}
    /\ corr_rank_price = {}
    /\ category_totals = {}
    /\ category_sov = {}
    /\ market_gap = {}
    /\ top_keywords = {}
    /\ calmf_products = <<>>
    /\ calmf_vs_market = {}
    /\ outliers = <<>>
    /\ data_quality = {}
    /\ ClientIdle

SpecShort == InitShort /\ [][Next]_vars

(***************************************************************************)
(* naver_api/api_client.py: NaverDataLabClient.search_all_products and     *)
(* search_products.  A frame of products is held as its number of rows.    *)
(***************************************************************************)
\* min(max_results, 1000) of line 356
API_LIMIT == 1000

\* display=100 of line 361 and the step of range() in line 358
PAGE_SIZE == 100

\* min(display, 100) of line 282
MAX_DISPLAY == 100

\* The max_results a caller passes: around one page, around the limit, and
\* between page boundaries.
MaxResultsArgs == {0, 1, 2, 100, 101, 102, 150, 500, 901, 1000, 1001, 2000}

\* The number of items a page of the API can hold: none, one, a full page.
PageRows == {0, 1, PAGE_SIZE}

\* What one page request can come to: a JSON body with items, an HTTP error
\* status, a failure of the transport, or an item whose price is no integer
\* (int() in _parse_products, line 316).
Responses ==
    {[kind |-> "ok", rows |-> n] : n \in PageRows}
        \cup {[kind |-> k, rows |-> 0] : k \in {"HTTPError", "RequestException", "ValueError"}}

\* lines 296-302: the two exceptions of requests are raised again as
\* Exception; anything else leaves search_products as it is.
Raised(kind) == IF kind \in {"HTTPError", "RequestException"} THEN "Exception" ELSE kind

Minimum(a, b) == IF a <= b THEN a ELSE b

\* The params of search_products, lines 280-285
SearchParams(display, from) == [display |-> Minimum(display, MAX_DISPLAY), start |-> from]

RECURSIVE ConcatRows(_)
\* pd.concat(all_products, ignore_index=True), by its number of rows
ConcatRows(frames) ==
    IF frames = <<>> THEN 0 ELSE Head(frames) + ConcatRows(Tail(frames))

\* lines 355-358: the call, the cap and the first value of range()
SearchAllProducts ==
    /\ api_pc = "idle"
    /\ \E m \in MaxResultsArgs : max_results' = Minimum(m, API_LIMIT)
    /\ all_products' = <<>>
    /\ start' = 1
    /\ api_pc' = "loop"
    /\ UNCHANGED <<requests, result, api_error>>
    /\ UNCHANGED <<pc, input, df, error, computed, written, tables>>

\* One iteration that keeps going after an empty page (no break).
SearchPageNoBreak ==
    /\ api_pc = "loop"
    /\ start < max_results
    /\ \E response \in Responses :
           /\ requests' = Append(requests, [params |-> SearchParams(PAGE_SIZE, start),
                                            response |-> response])
           /\ IF response.kind # "ok"
              THEN /\ api_pc' = "raised"
                   /\ api_error' = Raised(response.kind)
                   /\ UNCHANGED <<all_products, start>>
              ELSE /\ all_products' = Append(all_products, response.rows)
                   /\ start' = start + PAGE_SIZE
                   /\ UNCHANGED <<api_pc, api_error>>
    /\ UNCHANGED <<max_results, result>>
    /\ UNCHANGED <<pc, input, df, error, computed, written, tables>>

\* lines 358-367: one iteration of the loop.  search_products (lines
\* 287-302) turns an HTTP error and a transport failure into an Exception,
\* which search_all_products does not catch; an empty page ends the loop.
SearchPage ==
    /\ api_pc = "loop"
    /\ start < max_results
    /\ \E response \in Responses :
           /\ requests' = Append(requests, [params |-> SearchParams(PAGE_SIZE, start),
                                            response |-> response])
           /\ IF response.kind # "ok"
              THEN /\ api_pc' = "raised"
                   /\ api_error' = Raised(response.kind)
                   /\ UNCHANGED <<all_products, start>>
              ELSE IF response.rows = 0
              THEN /\ api_pc' = "return"
                   /\ UNCHANGED <<all_products, start, api_error>>
              ELSE /\ all_products' = Append(all_products, response.rows)
                   /\ start' = start + PAGE_SIZE
                   /\ UNCHANGED <<api_pc, api_error>>
    /\ UNCHANGED <<max_results, result>>
    /\ UNCHANGED <<pc, input, df, error, computed, written, tables>>

\* line 358: range(1, max_results, 100) is exhausted
EndOfRange ==
    /\ api_pc = "loop"
    /\ start >= max_results
    /\ api_pc' = "return"
    /\ UNCHANGED <<max_results, start, all_products, requests, result, api_error>>
    /\ UNCHANGED <<pc, input, df, error, computed, written, tables>>

\* lines 369-371: the concatenation of the pages, or an empty frame
ReturnProducts ==
    /\ api_pc = "return"
    /\ result' = IF all_products # <<>> THEN ConcatRows(all_products) ELSE 0
    /\ api_pc' = "returned"
    /\ UNCHANGED <<max_results, start, all_products, requests, api_error>>
    /\ UNCHANGED <<pc, input, df, error, computed, written, tables>>

NextSearch ==
    \/ SearchAllProducts
    \/ SearchPage
    \/ EndOfRange
    \/ ReturnProducts

\* One call of search_all_products; main is not running.
InitSearch ==
    /\ ClientIdle
    /\ pc = "idle"
    /\ input = FileSystem(AllColumns, FALSE, {}, {})
    /\ df = <<>>
    /\ error = ""
    /\ computed = {}
    /\ written = {}
    /\ positioning_summary = {}
    /\ corr_rank_price = {}
    /\ category_totals = {}
    /\ category_sov = {}
    /\ market_gap = {}
    /\ top_keywords = {}
    /\ calmf_products = <<>>
    /\ calmf_vs_market = {}
    /\ outliers = <<>>
    /\ data_quality = {}

SpecSearch == InitSearch /\ [][NextSearch]_vars

(***************************************************************************)
(* Properties                                                              *)
(***************************************************************************)
Failed == pc = "failed"

Done == pc = "done"

\* C1: a run is all-or-nothing: a failed run has written no output file and
\* a completed run has written all eleven.
C1_AllOrNothing ==
    /\ Failed => written = {}
    /\ Done => written = Artifacts

\* C2: the writes come last: once any output file is written every derived
\* table has been computed, so no computation follows a write.
C2_BulkWriteAtEnd == written # {} => DerivedTables \subseteq computed

Classified == "classification" \in computed

LabelSet == {PRICE_BAND_LABELS[i] : i \in 1..Len(PRICE_BAND_LABELS)}

\* The rows of df with the (period, category_group) of r, a null
\* category_group included: the cohort of r.
CohortOf(r) == SelectSeq(df, LAMBDA x : Key(x) = Key(r))

\* The number of non-null segmentation base values in the cohort of r.
ValidBaseCount(r) == Len(dropna(Column(CohortOf(r), SegmentValue)))

\* C3: segment is null iff the row's base value is null or its cohort has
\* fewer than 2 non-null base values; otherwise it is Mass, Premium or Luxury.
C3_SegmentNullIff ==
    Classified =>
        \A i \in 1..Len(df) :
            /\ df[i].segment = NoLabel <=>
                   (isna(SegmentValue(df[i])) \/ ValidBaseCount(df[i]) < 2)
            /\ df[i].segment \in {NoLabel, "Mass", "Premium", "Luxury"}

NonDecreasing(q) == \A i \in 1..(Len(q) - 1) : Le(q[i], q[i + 1])

CohortQ1(r) == Quantile(Column(CohortOf(r), LogUnitPrice), 5)

CohortQ3(r) == Quantile(Column(CohortOf(r), LogUnitPrice), 15)

LowerFence(r) == Sub(CohortQ1(r), Mul(Rat(3, 2), Sub(CohortQ3(r), CohortQ1(r))))

UpperFence(r) == Add(CohortQ3(r), Mul(Rat(3, 2), Sub(CohortQ3(r), CohortQ1(r))))

\* C5: is_outlier_iqr is true only if log_unit_price and both fences of the
\* cohort are non-null and log_unit_price is strictly outside the fences.
C5_OutlierOnlyStrictlyOutside ==
    Classified =>
        \A i \in 1..Len(df) :
            df[i].is_outlier_iqr =>
                /\ notna(df[i].log_unit_price)
                /\ notna(LowerFence(df[i]))
                /\ notna(UpperFence(df[i]))
                /\ \/ Lt(df[i].log_unit_price, LowerFence(df[i]))
                   \/ Gt(df[i].log_unit_price, UpperFence(df[i]))

\* A cohort with a flagged row and an unflagged row that has a log price.
C5_Witness ==
    /\ Classified
    /\ \E i, j \in 1..Len(df) :
           /\ Key(df[i]) = Key(df[j])
           /\ df[i].is_outlier_iqr
           /\ ~df[j].is_outlier_iqr
           /\ notna(df[j].log_unit_price)

\* C6: gap_score is null in every band-gap row whose supply_share is 0.
C6_GapScoreNullOnZeroSupply ==
    \A g \in market_gap : g.supply_share = Num(0) => isna(g.gap_score)

\* C6, its precondition: a band-gap row with supply_share 0.  No run reaches
\* one: a row with a price band has a sheet count parsed from its name, so
\* its band counts at least that name.
C6_ZeroSupplyRow == \E g \in market_gap : g.supply_share = Num(0)

RECURSIVE AddAll(_)
\* The plain sum of a set of floats: NaN propagates.
AddAll(S) ==
    IF S = {} THEN Num(0) ELSE LET x == CHOOSE x \in S : TRUE IN Add(x.v, AddAll(S \ {x}))

SovCohorts == {<<s.week_start_date, s.category_group>> : s \in category_sov}

SovRows(key) == {s \in category_sov : <<s.week_start_date, s.category_group>> = key}

SharesSumToOne(key) ==
    /\ AddAll({[b |-> s.brand, v |-> s.weighted_sov_inv_rank] : s \in SovRows(key)}) = Num(1)
    /\ AddAll({[b |-> s.brand, v |-> s.weighted_sov_inv_sqrt] : s \in SovRows(key)}) = Num(1)

HasPositiveRank(key) == \E i \in 1..Len(df) : Key(df[i]) = key /\ Gt(df[i].page_rank, Num(0))

\* C7 as claimed: in every cohort of the brand-share table the
\* weighted_sov_inv_rank of the brands sum to 1, and so do the
\* weighted_sov_inv_sqrt, whatever ranks are missing.
C7_WeightedSovSumsToOne ==
    "category_sov" \in computed => \A key \in SovCohorts : SharesSumToOne(key)

\* C7 as amended: the sums are 1 in every cohort of the brand-share table
\* that has at least one row with page_rank > 0.
C7_WeightedSovSumsToOneIfRanked ==
    "category_sov" \in computed =>
        \A key \in SovCohorts : HasPositiveRank(key) => SharesSumToOne(key)

\* A cohort of two brands in which one row has a rank and another has none.
C7_Witness ==
    /\ "category_sov" \in computed
    /\ \E key \in SovCohorts :
           /\ Cardinality(SovRows(key)) >= 2
           /\ HasPositiveRank(key)
           /\ \E i \in 1..Len(df) : Key(df[i]) = key /\ ~Gt(df[i].page_rank, Num(0))

TableRows(table, key) == {t \in table : <<t.week_start_date, t.category_group>> = key}

\* C8: every record is in exactly one cohort, so every per-cohort table of a
\* completed run has exactly one group for the record's cohort (one
\* (cohort, brand) group in the brand-share table), also when the record's
\* category1 and category2 are both empty.
C8_EveryRecordInOneCohort ==
    Done =>
        \A i \in 1..Len(df) :
            /\ Cardinality(TableRows(category_totals, Key(df[i]))) = 1
            /\ Cardinality(TableRows(corr_rank_price, Key(df[i]))) = 1
            /\ Cardinality(TableRows(data_quality, Key(df[i]))) = 1
            /\ Cardinality({s \in TableRows(category_sov, Key(df[i])) : s.brand = df[i].brand}) = 1

CorrStats(c) ==
    {c.spearman_corr, c.spearman_p, c.kendall_corr, c.kendall_p, c.slope, c.r2}

\* C9: the correlation table has exactly one row for every cohort of the
\* input; its n counts the cohort's rows with both page_rank and
\* log_unit_price, and with n < 2 all its statistics are null.
C9_OneCorrRowPerCohort ==
    "corr_rank_price" \in computed =>
        \A i \in 1..Len(df) :
            /\ Cardinality(TableRows(corr_rank_price, Key(df[i]))) = 1
            /\ \A c \in TableRows(corr_rank_price, Key(df[i])) :
                   /\ c.n = Len(CorrSubset(CohortOf(df[i])))
                   /\ c.n < 2 => CorrStats(c) = {StatNull}

\* C10: in a cohort with exactly one valid row every cohort quantile of that
\* row is null, its segment and price_band are null and it is no outlier.
C10_SingleValidRowAllNull ==
    Classified =>
        \A i \in 1..Len(df) :
            (notna(SegmentValue(df[i])) /\ ValidBaseCount(df[i]) = 1) =>
                /\ isna(df[i].p50) /\ isna(df[i].p85)
                /\ isna(df[i].q1) /\ isna(df[i].q3) /\ isna(df[i].iqr)
                /\ isna(df[i].lower_bound) /\ isna(df[i].upper_bound)
                /\ df[i].segment = NoLabel
                /\ df[i].price_band = NoLabel
                /\ ~df[i].is_outlier_iqr

\* No CSV is discoverable: ./input is absent or holds none, and the current
\* directory holds none.
NoFileDiscoverable ==
    /\ ~input.input_exists \/ input.input_files = {}
    /\ input.cwd_files = {}

\* C12: when no input CSV is discoverable, load_inputs raises
\* FileNotFoundError, the run is over, no block of main has run and no file
\* is written.
C12_NoInputAborts ==
    (NoFileDiscoverable /\ pc # "load_inputs")
        => /\ pc = "failed"
           /\ error = "FileNotFoundError"
           /\ df = <<>>
           /\ computed = {}
           /\ written = {}

\* C12, its case: a run that ended on an existing but empty ./input and an
\* empty current directory.
C12_Witness ==
    /\ input.input_exists
    /\ NoFileDiscoverable
    /\ pc = "failed"
    /\ error = "FileNotFoundError"

Normalized == "normalized" \in computed

\* The classify block has just run: df is the frame clean_long is written from.
JustClassified == pc = "clean_long"

\* C13: total_sheets is sheets_per_unit * units and null without a sheet
\* count; is_unrealistic_sheets holds exactly for a present total outside
\* [10, 1000]; is_valid_sheets holds exactly for a present, realistic total
\* above 0, so totals of 10 and of 1000 are valid; "30mae 2gae ip" gives 30,
\* 2, 60, valid and "5mae" gives 5, unrealistic, not valid.
C13_SheetFlags ==
    Normalized =>
        \A i \in 1..Len(df) :
            LET r     == df[i]
                total == r.total_sheets
                inside == Le(Num(10), total) /\ Le(total, Num(1000))
            IN  /\ IF isna(r.sheets_per_unit) THEN isna(total)
                   ELSE total = Num(r.sheets_per_unit.n * r.units)
                /\ r.is_unrealistic_sheets <=> (notna(total) /\ ~inside)
                /\ r.is_valid_sheets
                       <=> (notna(total) /\ ~r.is_unrealistic_sheets /\ Gt(total, Num(0)))
                /\ total \in {Num(10), Num(1000)} => r.is_valid_sheets
                /\ r.product_name = <<"3", "0", "mae", " ", "2", "gae", "ip">>
                       => /\ r.sheets_per_unit = Num(30)
                          /\ r.units = 2
                          /\ total = Num(60)
                          /\ r.is_valid_sheets
                /\ r.product_name = <<"5", "mae">>
                       => /\ total = Num(5)
                          /\ r.is_unrealistic_sheets
                          /\ ~r.is_valid_sheets

\* C13, its case: a finished run whose row has 2 units of 500 sheets, the
\* upper bound, and counts as valid.
C13_Witness ==
    /\ Done
    /\ \E i \in 1..Len(df) :
           /\ df[i].units = 2
           /\ df[i].total_sheets = Num(1000)
           /\ df[i].is_valid_sheets
           /\ ~df[i].is_unrealistic_sheets

\* The number a pattern finds in a name: that of its leftmost match.
PieceCount(name) == NumBefore(name, "gae")

PackCount(name) == NumBefore(name, "paek")

TimesCount(name) == NumAfterX(name)

\* C16: units is the number of the piece pattern when it matches anywhere,
\* else that of the pack pattern, else that of the x pattern, else 1; a null
\* name gives 1; the numbers are not combined and nothing is raised: a run
\* that fails under a header with the columns of the normalizer fails after
\* the normalizer.
C16_UnitsByPriority ==
    /\ (Failed /\ RequiredColumns \subseteq input.columns /\ Discover(input) # <<>>)
           => Normalized
    /\ Normalized =>
        \A i \in 1..Len(df) :
               LET name == df[i].product_name
                   u    == df[i].units
               IN  IF name = NA THEN u = 1
                   ELSE IF PieceCount(name) >= 0 THEN u = PieceCount(name)
                   ELSE IF PackCount(name) >= 0 THEN u = PackCount(name)
                   ELSE IF TimesCount(name) >= 0 THEN u = TimesCount(name)
                   ELSE u = 1

\* C16, its case: in "10mae 2paek 3gae" the pack pattern matches first in
\* the text and the piece pattern decides: 3 units, not 2 and not 6.
C16_Witness ==
    /\ Done
    /\ \E i \in 1..Len(df) :
           /\ df[i].product_name = <<"1", "0", "mae", " ", "2", "paek", " ", "3", "gae">>
           /\ df[i].units = 3

\* The rank cell of a row as pd.to_numeric reads it.
RankOf(i) == ToNumeric(LoadedRows(input)[i].page_rank)

Between(lo, x, hi) == Le(Num(lo), x) /\ Le(x, Num(hi))

\* C19: every row has exactly one of the five rank buckets: that of the range
\* its rank lies in, and 101+ for a rank above 100 and for a missing, zero
\* or negative rank.
C19_RankBuckets ==
    Classified =>
        \A i \in 1..Len(df) :
            LET rank   == RankOf(i)
                bucket == df[i].rank_bucket_4
            IN  /\ bucket \in {"1-10", "11-20", "21-50", "51-100", "101+"}
                /\ Between(1, rank, 10) => bucket = "1-10"
                /\ Between(11, rank, 20) => bucket = "11-20"
                /\ Between(21, rank, 50) => bucket = "21-50"
                /\ Between(51, rank, 100) => bucket = "51-100"
                /\ (isna(rank) \/ Le(rank, Num(0)) \/ Gt(rank, Num(100))) => bucket = "101+"

\* C19, its case: a finished run whose row has no rank and is in 101+.
C19_Witness ==
    /\ Done
    /\ \E i \in 1..Len(df) :
           /\ LoadedRows(input)[i].page_rank = NA
           /\ df[i].rank_bucket_4 = "101+"

\* The unit prices of the rows of r's cohort that have a valid sheet count.
ValidUnitPrices(r) ==
    Column(SelectSeq(CohortOf(r), LAMBDA x : x.is_valid_sheets), UnitPrice)

\* C14: a row without a valid sheet count has a null segment and a null
\* price_band, and the thresholds and the band of every row are those
\* computed from the unit prices of its cohort's valid rows alone.
C14_InvalidRowsExcluded ==
    JustClassified =>
        \A i \in 1..Len(df) :
            LET r     == df[i]
                valid == ValidUnitPrices(r)
            IN  /\ ~r.is_valid_sheets
                       => r.segment = NoLabel /\ r.price_band = NoLabel
                /\ InGroup(r)
                       => /\ r.p50 = Quantile(valid, 10)
                          /\ r.p85 = Quantile(valid, 17)
                          /\ r.is_valid_sheets
                                 => r.price_band = compute_price_band(valid, r.unit_price)

\* C14, its case: a row with an unrealistic sheet count and a unit price of
\* its own, in a cohort with two valid rows of other unit prices.
C14_Witness ==
    /\ JustClassified
    /\ \E i \in 1..Len(df) :
           /\ ~df[i].is_valid_sheets
           /\ notna(df[i].unit_price)
           /\ InGroup(df[i])
           /\ Len(dropna(ValidUnitPrices(df[i]))) >= 2
           /\ \A j \in 1..Len(ValidUnitPrices(df[i])) :
                  ValidUnitPrices(df[i])[j] # df[i].unit_price

\* The segmentation base values of r's cohort.
CohortBase(r) == Column(CohortOf(r), SegmentValue)

\* C17: a row with a segmentation base value v in a cohort is Mass when
\* v <= p50, Premium when p50 < v <= p85 and Luxury when v > p85, p50 and p85
\* being the cohort's 0.5 and 0.85 quantiles; exactly one of the three holds.
C17_SegmentByThresholds ==
    JustClassified =>
        \A i \in 1..Len(df) :
            LET r    == df[i]
                v    == SegmentValue(r)
                base == CohortBase(r)
                p50  == Quantile(base, 10)
                p85  == Quantile(base, 17)
            IN  (InGroup(r) /\ notna(v))
                    => /\ Le(p50, p85)
                       /\ Le(v, p50) => r.segment = "Mass"
                       /\ (Gt(v, p50) /\ Le(v, p85)) => r.segment = "Premium"
                       /\ Gt(v, p85) => r.segment = "Luxury"
                       /\ r.segment \in {"Mass", "Premium", "Luxury"}

\* C17, its case: a cohort with a Mass row and a Premium row, the latter
\* exactly on p85.
C17_Witness ==
    /\ JustClassified
    /\ \E i, j \in 1..Len(df) :
           /\ Key(df[i]) = Key(df[j])
           /\ df[i].segment = "Mass"
           /\ df[j].segment = "Premium"
           /\ df[j].unit_price = df[j].p85

\* C15: from load_inputs on, the frame has one row per record of the files
\* read, in their order and with the cells of the record, and the frame
\* written as clean_long is the classified one.
C15_OneRowPerRecord ==
    LET records == LoadedRows(input)
    IN  (records # <<>> /\ pc # "load_inputs")
            => /\ Len(df) = Len(records)
               /\ \A i \in 1..Len(df) :
                      /\ df[i].product_name = records[i].product_name
                      /\ df[i].category1 = records[i].category1
                      /\ (input.columns \cap DOMAIN records[i]) \subseteq DOMAIN df[i]
               /\ "clean_long.csv" \in written => Classified

\* C15, its case: clean_long is written from a frame that holds a row with
\* an unrealistic sheet count, a row without name, price and rank, and a row
\* without category.
C15_Witness ==
    /\ "clean_long.csv" \in written
    /\ \E i \in 1..Len(df) : df[i].is_unrealistic_sheets
    /\ \E i \in 1..Len(df) :
           /\ df[i].product_name = NA
           /\ isna(df[i].price)
           /\ isna(df[i].page_rank)
    /\ \E i \in 1..Len(df) : ~InGroup(df[i])

\* The non-null log unit prices of r's cohort.
CohortLogs(r) == dropna(Column(CohortOf(r), LogUnitPrice))

\* C18: z_log and robust_z are never infinite; every row of a cohort whose
\* log unit prices have no spread (all equal, or a single one) has a null
\* z_log, every row of a cohort whose MAD is not positive has a null
\* robust_z, and a row without log unit price has neither score.
C18_ZScoresNullWithoutSpread ==
    JustClassified =>
        \A i \in 1..Len(df) :
            LET r    == df[i]
                logs == CohortLogs(r)
            IN  /\ ~IsInf(r.z_log)
                /\ ~IsInf(r.robust_z)
                /\ isna(r.log_unit_price) => isna(r.z_log) /\ isna(r.robust_z)
                /\ IsConstant(logs) => isna(r.z_log)
                /\ ~Gt(Mad(logs), Num(0)) => isna(r.robust_z)

\* C18, with the float mean taken as exact: the claim of C18 in the runs
\* whose mean has no rounding error.
C18_ExactMeanRuns == input.mean_ulps = 0 => C18_ZScoresNullWithoutSpread

\* C20: per cohort the keyword table has at most 20 rows, ranked 1..k
\* without gap, each with the number of occurrences of its token; counts do
\* not increase with the rank, equal counts are ranked by first occurrence in
\* the cohort's rows, and no token left out occurs more often than a listed
\* one.
C20_TopKeywords ==
    "top_keywords" \in computed =>
        \A key \in Groups(df) :
            LET tokens == GroupTokens(GroupRows(df, key))
                rows   == TableRows(top_keywords, key)
                listed == {t.token : t \in rows}
            IN  /\ Cardinality(rows) <= 20
                /\ {t.token_rank : t \in rows} = 1..Cardinality(rows)
                /\ \A a \in rows : a.count = Occurrences(tokens, a.token)
                /\ \A a, b \in rows :
                       a.token_rank < b.token_rank
                           => /\ a.count >= b.count
                              /\ a.count = b.count
                                     => FirstIndex(tokens, a.token) < FirstIndex(tokens, b.token)
                /\ \A i \in 1..Len(tokens) :
                       tokens[i] \notin listed
                           => \A a \in rows : Occurrences(tokens, tokens[i]) <= a.count

\* C20, its case: a cohort of 22 distinct tokens of which 20 are listed, the
\* one that occurs twice first although it comes last in the name.
C20_Witness ==
    /\ Done
    /\ \E key \in Groups(df) :
           LET tokens == GroupTokens(GroupRows(df, key))
               rows   == TableRows(top_keywords, key)
           IN  /\ Cardinality({tokens[i] : i \in 1..Len(tokens)}) = 22
               /\ Cardinality(rows) = 20
               /\ \E a \in rows :
                      a.token_rank = 1 /\ a.count = 2 /\ a.token = tokens[Len(tokens)]

\* The frame main holds after each block, as a function of the input alone:
\* after lines 112-135, after line 208, after line 288 and after line 352.
NormalizedFrame(in) ==
    LET files == Discover(in)
    IN  MapSeq(concat([i \in 1..Len(files) |-> read_csv(files[i], in.columns)]),
               LAMBDA r : NormalizeRow(r, in.columns))

ClassifiedFrame(in) == ClassifyAll(NormalizedFrame(in))

WeightedFrame(in) == WithRankWeights(ClassifiedFrame(in))

FinalFrame(in) ==
    MapSeq(WeightedFrame(in), LAMBDA r : Merge(r, [is_calmf |-> is_calmf(r.brand)]))

Blanks(n) == [i \in 1..n |-> " "]

\* t is s with the surrounding blanks removed.
IsTrimOf(t, s) ==
    /\ t = <<>> \/ (t[1] # " " /\ t[Len(t)] # " ")
    /\ \E a \in 0..Len(s) : \E b \in 0..(Len(s) - a) :
           s = Blanks(a) \o t \o Blanks(b)

\* The text of a category cell of a record: empty when the header lacks the
\* column or the cell is missing.
CategoryText(record, col) ==
    IF col \in input.columns /\ record[col] # NA THEN record[col] ELSE <<>>

\* C21: category_group is category2 without its surrounding whitespace when
\* that is non-empty, else category1 without its surrounding whitespace when
\* that is non-empty, else null; it is never the empty string, and a missing
\* category column counts as empty.
C21_CategoryGroup ==
    Normalized =>
        LET records == LoadedRows(input)
        IN  \A i \in 1..Len(df) :
                LET group == df[i].category_group
                    c2    == CategoryText(records[i], "category2")
                    c1    == CategoryText(records[i], "category1")
                IN  /\ group # <<>>
                    /\ IF ~IsTrimOf(<<>>, c2) THEN group # NA /\ IsTrimOf(group, c2)
                       ELSE IF ~IsTrimOf(<<>>, c1) THEN group # NA /\ IsTrimOf(group, c1)
                       ELSE group = NA

\* C21, its cases: a blank category2 falls back to a category1 that is
\* trimmed; a missing category2 column falls back too; and a record whose
\* two cells are blank has no category_group.
C21_Witness ==
    /\ Normalized
    /\ Len(df) = 2
    /\ \/ /\ "category2" \in input.columns
          /\ LoadedRows(input)[2].category2 = <<" ">>
          /\ LoadedRows(input)[2].category1 = <<" ", "A", " ">>
          /\ df[2].category_group = <<"A">>
       \/ /\ "category2" \notin input.columns
          /\ LoadedRows(input)[2].category1 = <<" ", "A", " ">>
          /\ df[2].category_group = <<"A">>

\* C22: log_unit_price is non-null exactly when unit_price > 0 and
\* is_valid_sheets; unit_price is non-null only when total_sheets > 0, and is
\* then price / total_sheets; a zero, negative or null price never yields a
\* log_unit_price.
C22_LogUnitPrice ==
    Normalized =>
        \A i \in 1..Len(df) :
            LET r == df[i]
            IN  /\ notna(r.log_unit_price) <=> (Gt(r.unit_price, Num(0)) /\ r.is_valid_sheets)
                /\ notna(r.unit_price)
                       => /\ Gt(r.total_sheets, Num(0))
                          /\ r.unit_price = Div(r.price, r.total_sheets)
                /\ (isna(r.price) \/ Le(r.price, Num(0))) => isna(r.log_unit_price)

\* C22, its cases in finished runs: a negative price on a valid sheet count
\* (a unit price without logarithm), a positive unit price on an implausible
\* sheet count (no logarithm either), and a row with a logarithm.
C22_Witness ==
    /\ Done
    /\ \/ \E i \in 1..Len(df) :
              /\ Lt(df[i].price, Num(0)) /\ df[i].is_valid_sheets
              /\ Lt(df[i].unit_price, Num(0)) /\ isna(df[i].log_unit_price)
       \/ \E i \in 1..Len(df) :
              /\ Gt(df[i].unit_price, Num(0)) /\ ~df[i].is_valid_sheets
              /\ isna(df[i].log_unit_price)

\* C23: search_all_products returns at most min(max_results, 1000) products,
\* whatever max_results >= 0 and whatever the pages hold.
C23_AtMostMaxResults == api_pc = "returned" => result <= max_results

\* C23 as the code has it: the pages are never cut, so the result is bounded
\* by the number of page requests times the page size only.
C23_AtMostWholePages ==
    api_pc = "returned" => result <= ((max_results + PAGE_SIZE - 2) \div PAGE_SIZE) * PAGE_SIZE

\* The page request of index k (from 1) that the loop may send.
PageRequest(k) == [display |-> 100, start |-> 1 + 100 * (k - 1)]

\* C26: search_all_products sends its page requests in the order start = 1,
\* 101, 201, ... with display 100, sends none after the first empty page,
\* sends at most 10, and when a page request raises the exception leaves the
\* call and nothing is returned.
C26_PageRequests ==
    /\ Len(requests) <= 10
    /\ \A k \in 1..Len(requests) :
           /\ requests[k].params = PageRequest(k)
           /\ k < Len(requests)
                  => requests[k].response.kind = "ok" /\ requests[k].response.rows > 0
    /\ (requests # <<>> /\ requests[Len(requests)].response.kind # "ok")
           => /\ api_pc = "raised"
              /\ api_error \in {"Exception", "ValueError"}
              /\ result = NoResult
    /\ api_pc \in {"return", "returned"} /\ requests # <<>>
           => requests[Len(requests)].response.kind = "ok"

\* C26, its cases: a call that returned after ten requests, one that an empty
\* third page ended, and one that a failing third page ended with pages in
\* hand.
C26_Witness ==
    \/ api_pc = "returned" /\ Len(requests) = 10
    \/ /\ api_pc = "returned" /\ Len(requests) = 3 /\ max_results = 1000
       /\ requests[3].response = [kind |-> "ok", rows |-> 0]
    \/ /\ api_pc = "raised" /\ Len(requests) = 3 /\ Len(all_products) = 2
       /\ result = NoResult

\* A row with one of the per-row data problems: a price or page_rank that
\* is no number, no product name, or a name without a sheet count.
ProblemRow(r) ==
    isna(r.price) \/ isna(r.page_rank) \/ r.product_name = NA \/ isna(r.sheets_per_unit)

\* C24: per-row data problems never abort the run: a row with an unparsable
\* price, a missing or non-numeric page_rank, no product name or a name
\* without sheet or unit pattern has the affected fields null (units 1), the
\* run does not fail, and a finished run has written every output file.
C24_RowProblemsNeverAbort ==
    (Normalized /\ input.columns = AllColumns /\ \E i \in 1..Len(df) : ProblemRow(df[i]))
        => /\ ~Failed
           /\ Done => written = Artifacts
           /\ \A i \in 1..Len(df) :
                  /\ df[i].product_name = NA
                         => isna(df[i].sheets_per_unit) /\ df[i].units = 1
                  /\ isna(df[i].price) => isna(df[i].unit_price)
                  /\ isna(df[i].sheets_per_unit) => isna(df[i].unit_price)

\* C24 in the runs where the regression of line 268 has two or more points:
\* a failure after the normalizer, under a complete header, is the ValueError of a cohort whose points
\* all have the same log_unit_price, and the rows with a data problem carry
\* null fields.
C24_AbortOnlyInRegression ==
    (Normalized /\ input.columns = AllColumns /\ Failed)
        => /\ error = "ValueError"
           /\ \E key \in Groups(df) : LinregressDegenerate(CorrSubset(GroupRows(df, key)))

AsciiUpper ==
    {"A", "B", "C", "D", "E", "F", "G", "H", "I", "J", "K", "L", "M",
     "N", "O", "P", "Q", "R", "S", "T", "U", "V", "W", "X", "Y", "Z"}

AsciiLower ==
    {"a", "b", "c", "d", "e", "f", "g", "h", "i", "j", "k", "l", "m",
     "n", "o", "p", "q", "r", "s", "t", "u", "v", "w", "x", "y", "z"}

AsciiDigits == {"0", "1", "2", "3", "4", "5", "6", "7", "8", "9"}

\* A token as the keyword table may hold it.
CleanToken(token) ==
    /\ Len(token) >= 2
    /\ \A i \in 1..Len(token) :
           /\ token[i] \notin AsciiUpper
           /\ token[i] \in AsciiDigits \cup AsciiLower \cup Hangul
    /\ token \notin STOPWORDS

\* C25: every token of tokenize, and so every token of the keyword table, is
\* lowercase, made of digits, ASCII letters and Hangul syllables only, at
\* least 2 long and no stopword; a null name has no tokens.
C25_CleanTokens ==
    Normalized =>
        /\ \A i \in 1..Len(df) :
               LET tokens == tokenize(df[i].product_name)
               IN  /\ \A k \in 1..Len(tokens) : CleanToken(tokens[k])
                   /\ df[i].product_name = NA => tokens = <<>>
        /\ \A t \in top_keywords : CleanToken(t.token)

\* C25, its case: the punctuated name in a finished run, whose capitals come
\* out in lowercase, whose stopword is listed only inside the longer token,
\* and whose one-letter tokens are dropped.
C25_Witness ==
    /\ Done
    /\ \E i \in 1..Len(df) : df[i].product_name = PunctuatedName
    /\ {t.token : t \in top_keywords} = {<<"a", "b">>, <<"pae", "deu", "a">>, <<"3", "0", "mae">>}

\* The place of a label in its order, 0 for a label that is not in it.
PlaceIn(order, label) ==
    IF \E k \in 1..Len(order) : order[k] = label
    THEN CHOOSE k \in 1..Len(order) : order[k] = label
    ELSE 0

SegmentPlace(r) == PlaceIn(<<"Mass", "Premium", "Luxury">>, r.segment)

BandPlace(r) == PlaceIn(<<"P0-20", "P20-40", "P40-60", "P60-80", "P80-100">>, r.price_band)

\* C27: classification is monotone within a cohort: of two rows of one
\* cohort with segmentation base values a <= b, the first has neither a
\* higher segment (Mass < Premium < Luxury) nor a higher price band
\* (P0-20 < ... < P80-100); equal base values get the same segment and band.
C27_MonotoneClassification ==
    JustClassified =>
        \A i, j \in 1..Len(df) :
            LET a == SegmentValue(df[i])
                b == SegmentValue(df[j])
            IN  (InGroup(df[i]) /\ Key(df[i]) = Key(df[j]) /\ notna(a) /\ notna(b) /\ Le(a, b))
                    => /\ SegmentPlace(df[i]) >= 1
                       /\ SegmentPlace(df[i]) <= SegmentPlace(df[j])
                       /\ (BandPlace(df[i]) = 0) = (BandPlace(df[j]) = 0)
                       /\ BandPlace(df[i]) <= BandPlace(df[j])
                       /\ a = b => /\ df[i].segment = df[j].segment
                                   /\ df[i].price_band = df[j].price_band

\* C27, its case: a cohort with two rows of one base value and a third of a
\* higher one, in different segments and bands.
C27_Witness ==
    /\ JustClassified
    /\ \E i, j, k \in 1..Len(df) :
           /\ i # j
           /\ InGroup(df[i]) /\ Key(df[i]) = Key(df[j]) /\ Key(df[j]) = Key(df[k])
           /\ notna(SegmentValue(df[i]))
           /\ SegmentValue(df[i]) = SegmentValue(df[j])
           /\ Lt(SegmentValue(df[j]), SegmentValue(df[k]))
           /\ SegmentPlace(df[i]) = 1 /\ SegmentPlace(df[k]) = 3
           /\ BandPlace(df[i]) >= 1 /\ BandPlace(df[i]) < BandPlace(df[k])

\* C28: the flags of a row are consistent: is_valid_sheets and
\* is_unrealistic_sheets are never both true, is_valid_sheets implies
\* has_sheets, and a log_unit_price, a segment, a price_band or
\* is_outlier_iqr = true each imply is_valid_sheets.
C28_ConsistentFlags ==
    /\ Normalized =>
           \A i \in 1..Len(df) :
               /\ ~(df[i].is_valid_sheets /\ df[i].is_unrealistic_sheets)
               /\ df[i].is_valid_sheets => df[i].has_sheets
               /\ notna(df[i].log_unit_price) => df[i].is_valid_sheets
    /\ Classified =>
           \A i \in 1..Len(df) :
               /\ df[i].segment # NoLabel => df[i].is_valid_sheets
               /\ df[i].price_band # NoLabel => df[i].is_valid_sheets
               /\ df[i].is_outlier_iqr => df[i].is_valid_sheets

\* C28, its case: a finished run with an outlier, which has a valid sheet
\* count, a logarithm, a segment and a band.
C28_Witness ==
    /\ Done
    /\ \E i \in 1..Len(df) :
           /\ df[i].is_outlier_iqr /\ df[i].is_valid_sheets /\ df[i].has_sheets
           /\ ~df[i].is_unrealistic_sheets /\ notna(df[i].log_unit_price)
           /\ df[i].segment # NoLabel /\ df[i].price_band # NoLabel

\* The cohort has a row with a product name.
HasName(key) == \E i \in 1..Len(df) : Key(df[i]) = key /\ df[i].product_name # NA

\* C29: in every cohort with at least one row that has a product name the
\* sov of the brands sum to 1, no brand has more items than the cohort's
\* total_count, and the supply_share of the cohort's price bands sum to at
\* most 1.
C29_SharesOfCohort ==
    /\ "category_sov" \in computed =>
           \A key \in SovCohorts :
               HasName(key)
                   => /\ AddAll({[b |-> s.brand, v |-> s.sov] : s \in SovRows(key)}) = Num(1)
                      /\ \A s \in SovRows(key) : s.item_count <= s.total_count
    /\ "market_gap" \in computed =>
           \A key \in SovCohorts :
               HasName(key)
                   => Le(AddAll({[b |-> g.price_band, v |-> g.supply_share] :
                                    g \in TableRows(market_gap, key)}), Num(1))

\* C29, its case: a cohort of two brands with a row that has no product
\* name, whose bands hold fewer items than the cohort has.
C29_Witness ==
    /\ "market_gap" \in computed
    /\ \E key \in SovCohorts :
           /\ HasName(key)
           /\ \E i \in 1..Len(df) : Key(df[i]) = key /\ df[i].product_name = NA
           /\ Cardinality(SovRows(key)) >= 2
           /\ TableRows(market_gap, key) # {}
           /\ Lt(AddAll({[b |-> g.price_band, v |-> g.supply_share] :
                            g \in TableRows(market_gap, key)}), Num(1))

\* The one place load_inputs reads: ./input when it exists and holds a CSV,
\* else the current directory.
ReadLocation ==
    IF input.input_exists /\ input.input_files # {} THEN input.input_files ELSE input.cwd_files

\* The indices of the rows of df that came from a file of the given name.
RowsFrom(name) == {i \in 1..Len(df) : df[i].source_file = name}

\* C30: load_inputs reads exactly one place: the CSVs of ./input when it
\* exists and holds one, and then none of the current directory, else the
\* CSVs of the current directory.  The files follow each other in sorted
\* name order, the frame has as many rows as the files together, and the
\* source_file of a row is the name of the file it came from.
C30_OneLocationInNameOrder ==
    pc = "normalize" =>
        /\ \A i \in 1..Len(df) : \E f \in ReadLocation : f.name = df[i].source_file
        /\ \A f \in ReadLocation :
               /\ Cardinality(RowsFrom(f.name)) = Len(f.rows)
               /\ \A i \in RowsFrom(f.name) :
                      LET k   == Cardinality({j \in RowsFrom(f.name) : j <= i})
                          raw == f.rows[k]
                      IN  \A c \in DOMAIN raw \cap input.columns : df[i][c] = raw[c]
        /\ \A i, j \in 1..Len(df) :
               i < j => NameRank(df[i].source_file) <= NameRank(df[j].source_file)

\* C30, its case: ./input holds two files and the current directory holds a
\* file of another content under one of their names; the frame has the two
\* rows of ./input in name order.
C30_Witness ==
    /\ pc = "normalize"
    /\ input.input_exists
    /\ Cardinality(input.input_files) = 2
    /\ input.cwd_files # {}
    /\ input.cwd_files \cap input.input_files = {}
    /\ Len(df) = 2
    /\ df[1].source_file = FileNames[1] /\ df[2].source_file = FileNames[2]
====
